---- MODULE Spec2Model ----
(***************************************************************************)
(* A model of the love-always backend: the bearer-token authentication and *)
(* authorization middleware, the auth routes (register, login, refresh,    *)
(* logout), the setup route and the upload pipeline of POST /songs and     *)
(* POST /users/:id/avatar, written from the JavaScript sources.            *)
(***************************************************************************)
EXTENDS Integers, Sequences, FiniteSets, TLC

\* ------------------------------------------------------------------ bounds

MaxUsers == 2       \* identities the Credential Store can hold
MaxTime == 3        \* clock ticks of a run
MaxRegReq == 2      \* requests in flight at once on register / create-admin
MaxUpReq == 2       \* requests the upload routes receive in a run
MaxRatings == 7     \* ratings a track receives in a run
MaxPlays == 1       \* plays and ratings a track of the catalog receives in a run

\* expiresIn of generateToken ('7d' unless JWT_EXPIRE is set), in clock ticks
TokenLifetime == 2

UserIds == 1..MaxUsers
Times == 0..MaxTime
Roles == {"senior", "contributor", "admin"}

\* ------------------------------------------------------------------- state

VARIABLES
  users,    \* Credential Store: the users collection, by _id
  now,      \* the clock jwt.sign and jwt.verify read
  call,     \* the last middleware call made on a bare request context
  last,     \* the last request answered
  regs,     \* register / create-admin: the request in each slot
  ups,      \* upload routes: the requests received so far
  disk,     \* files under uploads/
  songs     \* Catalog Store: the songs collection

vars == <<users, now, call, last, regs, ups, disk, songs>>

\* --------------------------------------------------------- Credential Store

\* bcrypt.hash / bcrypt.compare: a one-way image of the plain password.
Hash(p) == <<"bcrypt", p>>

Passwords == {"pw1", "pw2"}

\* Email addresses as clients type them, and the one the setup route uses.
AdminEmail == "admin@lovealways.com"
RawEmails == {"ann@x.io", "Ann@X.io", AdminEmail}

\* The schema's lowercase setter, and normalizeEmail() of the validators.
Lower(e) == IF e = "Ann@X.io" THEN "ann@x.io" ELSE e

\* A slot of the collection that holds no document.
\* No file: profile.avatar and coverImage when unset.
NoFile == [dir |-> "", name |-> <<>>]

Absent ==
  [exists |-> FALSE, email |-> "", password |-> <<>>, role |-> "senior",
   isActive |-> FALSE, avatar |-> NoFile]

\* new User({...}) after the schema's defaults and setters and the pre-save
\* hook: role defaults to 'senior', isActive to true, the password is hashed.
NewUser(email, password, role) ==
  [exists |-> TRUE, email |-> email, password |-> Hash(password),
   role |-> role, isActive |-> TRUE, avatar |-> NoFile]

\* The values of request properties that hold no document.
Undefined == [k |-> "undefined"]
Null == [k |-> "null"]

\* A document as a handler holds it: a snapshot taken when the query ran.
Doc(id) ==
  [k |-> "doc", id |-> id, role |-> users[id].role,
   isActive |-> users[id].isActive]

\* User.findById(id): the document, or null.
findById(id) ==
  IF id \in UserIds /\ users[id].exists THEN Doc(id) ELSE Null

\* !x for a request property.
Falsy(x) == x.k \in {"undefined", "null"}

\* ------------------------------------------------------------ Token Service

\* A token as jwt.verify sees it: the subject and expiry of its payload and
\* whether its signature matches the signing key.
Tokens ==
  [lex : {"jwt"}, sub : UserIds, exp : 0..(MaxTime + TokenLifetime),
   sig : BOOLEAN]

generateTokenExpired(userId) ==
  [lex |-> "jwt", sub |-> userId, exp |-> now, sig |-> TRUE]

generateTokenOfFirst(userId) ==
  [lex |-> "jwt", sub |-> 1, exp |-> now + TokenLifetime, sig |-> TRUE]

\* jwt.sign({ userId }, secret, { expiresIn }).
generateToken(userId) ==
  [lex |-> "jwt", sub |-> userId, exp |-> now + TokenLifetime, sig |-> TRUE]

jwtVerifyOneError(t) ==
  IF ~t.sig \/ now >= t.exp THEN [ok |-> FALSE, name |-> "JsonWebTokenError"]
  ELSE [ok |-> TRUE, userId |-> t.sub]

\* jwt.verify(token, secret): the payload, or the name of the error thrown.
\* The signature is checked before the expiry; a token is expired once the
\* clock has reached exp.
jwtVerify(t) ==
  IF ~t.sig THEN [ok |-> FALSE, name |-> "JsonWebTokenError"]
  ELSE IF now >= t.exp THEN [ok |-> FALSE, name |-> "TokenExpiredError"]
  ELSE [ok |-> TRUE, userId |-> t.sub]

\* ----------------------------------------------------- Authorization header

\* A header value is a string, held as a sequence of lexemes: scheme words
\* ("Bearer ", "bearer ", "Basic ") and tokens. A request without the header
\* carries NoHeader; Hdr(<<>>) is the empty string.
Word(w) == [lex |-> w]
Hdr(text) == [present |-> TRUE, text |-> text]
NoHeader == [present |-> FALSE, text |-> <<>>]
Bearer(t) == Hdr(<<Word("Bearer "), t>>)

\* A token nothing is wrong with until the end of the run.
GoodToken ==
  [lex |-> "jwt", sub |-> 1, exp |-> MaxTime + TokenLifetime, sig |-> TRUE]

Headers ==
  {NoHeader, Hdr(<<>>), Hdr(<<Word("Bearer ")>>)}
    \cup {Bearer(t) : t \in Tokens}
    \cup {Hdr(<<Word(w), GoodToken>>) : w \in {"bearer ", "Basic "}}
    \cup {Hdr(<<Word("Bearer "), Word("Bearer "), GoodToken>>)}

\* authHeader.startsWith('Bearer ')
startsWithBearer(h) == Len(h.text) >= 1 /\ h.text[1].lex = "Bearer "

\* !authHeader || !authHeader.startsWith('Bearer ')
NoBearer(h) == ~h.present \/ h.text = <<>> \/ ~startsWithBearer(h)

\* authHeader.replace('Bearer ', ''): the first occurrence is removed, which
\* for a header that starts with it is the prefix.
StripBearer(h) == Tail(h.text)

\* jwt.verify on the string left of the header: one token lexeme is a JWT,
\* anything else (a scheme word in front of it) is malformed.
verifyString(s) ==
  IF Len(s) = 1 /\ s[1].lex = "jwt" THEN jwtVerify(s[1])
  ELSE [ok |-> FALSE, name |-> "JsonWebTokenError"]

\* --------------------------------------------------------- request context

\* What a middleware reads and writes of (req, res, next): the Authorization
\* header, req.user, req.params.id, the status and error code of the response
\* sent (0 and "" while none is), the token of its body, and how often next()
\* was called. fault says that the store query of this request rejects.
NoParam == [k |-> "undefined"]
Str(v) == [k |-> "str", v |-> v]

\* A response body that carries no token.
NoToken == [lex |-> "none"]

Ctx(hdr, user, id, fault) ==
  [hdr |-> hdr, user |-> user, id |-> id, fault |-> fault,
   status |-> 0, error |-> "", next |-> 0, token |-> NoToken]

\* res.status(code).json({ error, ... })
Reply(r, code, error) == [r EXCEPT !.status = code, !.error = error]

\* next()
Proceed(r) == [r EXCEPT !.next = r.next + 1]

\* ------------------------------------------------- middleware/auth.js

authenticateNoActiveCheck(r) ==
  IF NoBearer(r.hdr) THEN Reply(r, 401, "Access denied")
  ELSE LET decoded == verifyString(StripBearer(r.hdr)) IN
    IF ~decoded.ok THEN Reply(r, 401, "Invalid token")
    ELSE IF Falsy(findById(decoded.userId)) THEN Reply(r, 401, "Invalid token")
    ELSE Proceed([r EXCEPT !.user = findById(decoded.userId)])

\* authenticate: required mode.
authenticate(r) ==
  IF NoBearer(r.hdr) THEN Reply(r, 401, "Access denied")
  ELSE LET token == StripBearer(r.hdr) IN
    IF token = <<>> THEN Reply(r, 401, "Access denied")
    ELSE LET decoded == verifyString(token) IN
      IF ~decoded.ok
      THEN IF decoded.name = "TokenExpiredError"
           THEN Reply(r, 401, "Token expired")
           ELSE Reply(r, 401, "Invalid token")
      ELSE IF r.fault THEN Reply(r, 500, "Authentication failed")
      ELSE LET user == findById(decoded.userId) IN
        IF Falsy(user) THEN Reply(r, 401, "Invalid token")
        ELSE IF ~user.isActive THEN Reply(r, 401, "Account deactivated")
        ELSE Proceed([r EXCEPT !.user = user])

authorizeNoRoleCheck(roles, r) ==
  IF Falsy(r.user) THEN Reply(r, 401, "Authentication required")
  ELSE Proceed(r)

\* authorize(...roles)
authorize(roles, r) ==
  IF Falsy(r.user) THEN Reply(r, 401, "Authentication required")
  ELSE IF r.user.role \notin roles
  THEN Reply(r, 403, "Insufficient permissions")
  ELSE Proceed(r)

optionalAuthKeepsInactive(r) ==
  IF NoBearer(r.hdr) \/ StripBearer(r.hdr) = <<>>
  THEN Proceed([r EXCEPT !.user = Null])
  ELSE LET decoded == verifyString(StripBearer(r.hdr)) IN
    IF ~decoded.ok \/ r.fault THEN Proceed([r EXCEPT !.user = Null])
    ELSE Proceed([r EXCEPT !.user = findById(decoded.userId)])

\* optionalAuth: optional mode.
optionalAuth(r) ==
  IF NoBearer(r.hdr) THEN Proceed([r EXCEPT !.user = Null])
  ELSE LET token == StripBearer(r.hdr) IN
    IF token = <<>> THEN Proceed([r EXCEPT !.user = Null])
    ELSE LET decoded == verifyString(token) IN
      IF ~decoded.ok \/ r.fault THEN Proceed([r EXCEPT !.user = Null])
      ELSE LET user == findById(decoded.userId) IN
        IF ~Falsy(user) /\ user.isActive
        THEN Proceed([r EXCEPT !.user = user])
        ELSE Proceed([r EXCEPT !.user = Null])

\* req.user._id.toString()
toString(id) == Str(id)

requireOwnershipOrAdminNoIdCheck(r) ==
  IF Falsy(r.user) THEN Reply(r, 401, "Authentication required")
  ELSE IF r.user.role = "admin" THEN Proceed(r)
  ELSE IF r.id.k = "undefined" THEN Reply(r, 400, "Resource ID required")
  ELSE Proceed(r)

\* requireOwnershipOrAdmin(): the ownership check.
requireOwnershipOrAdmin(r) ==
  IF Falsy(r.user) THEN Reply(r, 401, "Authentication required")
  ELSE IF r.user.role = "admin" THEN Proceed(r)
  ELSE LET resourceId == r.id IN
    IF resourceId.k = "undefined" THEN Reply(r, 400, "Resource ID required")
    ELSE IF toString(r.user.id) = resourceId THEN Proceed(r)
    ELSE Reply(r, 403, "Access denied")

\* ------------------------------------------------------------- fixed parts

\* The states a slot of the users collection can be in.
UserStates(id) ==
  {Absent} \cup
  {[NewUser(IF id = 2 THEN AdminEmail ELSE IF id = 1 THEN "ann@x.io" ELSE "bob@x.io",
            "pw1", role) EXCEPT !.isActive = a] :
     role \in Roles, a \in BOOLEAN}

Idle == [pc |-> "idle"]
NoCall == [fn |-> "none"]
NoAnswer == [route |-> "none", n |-> 0]

\* --------------------------------------- the middleware on a bare context

\* req.user as a middleware may find it: never set, null, or a document.
ReqUsers ==
  {Undefined, Null} \cup {findById(id) : id \in {i \in UserIds : users[i].exists}}

\* req.params.id: none in the route path, a user's id, or another id.
ParamIds == {NoParam} \cup {Str(v) : v \in UserIds \cup {0}}

\* The role lists the routes pass to authorize, and the empty list.
RoleLists == {{"admin"}, {"contributor", "admin"}, {}}

CallAuthenticate ==
  /\ call = NoCall
  /\ UNCHANGED <<users, now, last, regs, ups, disk, songs>>
  /\ \E h \in Headers, f \in BOOLEAN :
        call' = [fn |-> "authenticate", in |-> Ctx(h, Undefined, NoParam, f),
                 out |-> authenticate(Ctx(h, Undefined, NoParam, f))]

CallOptionalAuth ==
  /\ call = NoCall
  /\ UNCHANGED <<users, now, last, regs, ups, disk, songs>>
  /\ \E h \in Headers, f \in BOOLEAN :
        call' = [fn |-> "optionalAuth", in |-> Ctx(h, Undefined, NoParam, f),
                 out |-> optionalAuth(Ctx(h, Undefined, NoParam, f))]

CallAuthorize ==
  /\ call = NoCall
  /\ UNCHANGED <<users, now, last, regs, ups, disk, songs>>
  /\ \E roles \in RoleLists, u \in ReqUsers :
        call' = [fn |-> "authorize", roles |-> roles,
                 in |-> Ctx(NoHeader, u, NoParam, FALSE),
                 out |-> authorize(roles, Ctx(NoHeader, u, NoParam, FALSE))]

CallOwnership ==
  /\ call = NoCall
  /\ UNCHANGED <<users, now, last, regs, ups, disk, songs>>
  /\ \E u \in ReqUsers, id \in ParamIds :
        call' = [fn |-> "requireOwnershipOrAdmin",
                 in |-> Ctx(NoHeader, u, id, FALSE),
                 out |-> requireOwnershipOrAdmin(Ctx(NoHeader, u, id, FALSE))]

InitRest ==
  /\ last = NoAnswer
  /\ regs = [i \in 1..MaxRegReq |-> Idle]
  /\ ups = 0
  /\ disk = {}
  /\ songs = {}

InitMw ==
  /\ users \in [UserIds -> UNION {UserStates(id) : id \in UserIds}]
  /\ \A id \in UserIds : users[id] \in UserStates(id)
  /\ now \in Times
  /\ call = NoCall
  /\ InitRest

NextMw ==
  \/ CallAuthenticate
  \/ CallOptionalAuth
  \/ CallAuthorize
  \/ CallOwnership

SpecMw == InitMw /\ [][NextMw]_vars

\* ------------------------------------------------- routes/auth.js: sessions

\* The tokens a client can hold: signed by the server for a stored identity,
\* with an expiry generateToken can have given by now.
SessionTokens ==
  {t \in Tokens :
     /\ t.sig
     /\ users[t.sub].exists
     /\ t.exp >= TokenLifetime
     /\ t.exp <= now + TokenLifetime}

SessionHeaders == {NoHeader} \cup {Bearer(t) : t \in SessionTokens}

\* GET /me, after authenticate.
getMe(r) == Reply(r, 200, "")

refreshExpired(r) ==
  [Reply(r, 200, "") EXCEPT !.token = generateTokenExpired(r.user.id)]

\* POST /refresh, after authenticate.
refresh(r) == [Reply(r, 200, "") EXCEPT !.token = generateToken(r.user.id)]

\* POST /logout, after authenticate.
logout(r) == Reply(r, 200, "")

\* A route whose chain is authenticate and a handler that awaits nothing: the
\* handler runs in the continuation of authenticate's store query.
Chain(route, r) ==
  LET a == authenticate(r) IN
  IF a.next = 0 THEN a
  ELSE IF route = "me" THEN getMe(a)
  ELSE IF route = "refresh" THEN refresh(a)
  ELSE logout(a)

\* Whether the request answered before this one was a refresh or logout that
\* succeeded with the token this one presents, or a refresh that returned it,
\* or a login that returned it.
After(in) ==
  IF /\ last.route \in {"refresh", "logout"}
     /\ last.out.status = 200
     /\ \/ in.hdr = last.in.hdr
        \/ in.hdr = Bearer(last.out.token)
  THEN last.route
  ELSE IF /\ last.route = "login"
          /\ last.out.status = 200
          /\ in.hdr = Bearer(last.out.token)
  THEN "login"
  ELSE "none"

\* An answered request: its route, its inputs, the context it ended with,
\* what it came after, and a bit that tells it from the request answered
\* before it.
Answered(route, in, out) ==
  [route |-> route, in |-> in, out |-> out, after |-> After(in),
   n |-> 1 - last.n]

SessionAnswer(route, h, f) ==
  Answered(route, [hdr |-> h, fault |-> f],
           Chain(route, Ctx(h, Undefined, NoParam, f)))

GetMe ==
  /\ UNCHANGED <<users, now, call, regs, ups, disk, songs>>
  /\ \E h \in SessionHeaders, f \in BOOLEAN :
       last' = SessionAnswer("me", h, f)

PostRefresh ==
  /\ UNCHANGED <<users, now, call, regs, ups, disk, songs>>
  /\ \E h \in SessionHeaders, f \in BOOLEAN :
       last' = SessionAnswer("refresh", h, f)

PostLogout ==
  /\ UNCHANGED <<users, now, call, regs, ups, disk, songs>>
  /\ \E h \in SessionHeaders, f \in BOOLEAN :
       last' = SessionAnswer("logout", h, f)

\* User.findOne({ email }): the query casts the address through the schema's
\* lowercase setter; the document, or null.
findOne(email) ==
  IF \E id \in UserIds : users[id].exists /\ users[id].email = Lower(email)
  THEN Doc(CHOOSE id \in UserIds :
             users[id].exists /\ users[id].email = Lower(email))
  ELSE Null

\* user.comparePassword(candidate) on the document findOne returned.
comparePassword(id, candidate) == users[id].password = Hash(candidate)

\* findOne(...).select('+password'): the document with the stored password.
WithPassword(doc) ==
  [p \in DOMAIN doc \cup {"password"} |->
     IF p = "password" THEN users[doc.id].password ELSE doc[p]]

preSaveAlways(doc, changes) ==
  IF "password" \in DOMAIN changes THEN Hash(changes.password)
  ELSE IF "password" \in DOMAIN doc THEN <<"bcrypt">> \o doc.password
  ELSE users[doc.id].password

\* userSchema.pre('save'): the password the save stores. The hook returns
\* at once unless the password path is modified; else it hashes the value
\* assigned.
preSave(doc, changes) ==
  IF "password" \notin DOMAIN changes THEN users[doc.id].password
  ELSE Hash(changes.password)

\* user.save() after the assignments of changes to the document: the hook
\* runs, then the modified paths are written (those the store's record
\* holds).
saveUser(doc, changes) ==
  [users EXCEPT ![doc.id] =
     [p \in DOMAIN users[doc.id] |->
        IF p = "password" THEN preSave(doc, changes)
        ELSE IF p \in DOMAIN changes THEN changes[p]
        ELSE users[doc.id][p]]]

\* userSchema.methods.updateLastLogin
updateLastLogin(doc) == saveUser(doc, [lastLogin |-> now])

loginNoActiveCheck(in, r) ==
  IF ~in.valid THEN Reply(r, 400, "Validation failed")
  ELSE IF r.fault THEN Reply(r, 500, "Login failed")
  ELSE IF Falsy(findOne(in.email))
  THEN Reply(r, 401, "Invalid credentials")
  ELSE IF ~comparePassword(findOne(in.email).id, in.password)
  THEN Reply(r, 401, "Invalid credentials")
  ELSE [Reply([r EXCEPT !.user = findOne(in.email)], 200, "")
          EXCEPT !.token = generateToken(findOne(in.email).id)]

\* POST /login: the validators, the lookup, the active check, the password
\* comparison and the token.
login(in, r) ==
  IF ~in.valid THEN Reply(r, 400, "Validation failed")
  ELSE IF r.fault THEN Reply(r, 500, "Login failed")
  ELSE LET user == findOne(in.email) IN
    IF Falsy(user) THEN Reply(r, 401, "Invalid credentials")
    ELSE IF ~user.isActive THEN Reply(r, 401, "Account deactivated")
    ELSE IF ~comparePassword(user.id, in.password)
    THEN Reply(r, 401, "Invalid credentials")
    ELSE [Reply([r EXCEPT !.user = user], 200, "")
            EXCEPT !.token = generateToken(user.id)]

\* The handler; on success updateLastLogin saves the document that was read
\* with its password (stats.lastLogin is a path the store's record leaves
\* out).
PostLogin ==
  /\ UNCHANGED <<now, call, regs, ups, disk, songs>>
  /\ \E email \in RawEmails, password \in Passwords, valid, f \in BOOLEAN :
       LET in == [hdr |-> NoHeader, email |-> email, password |-> password,
                  valid |-> valid, fault |-> f]
       IN  \E out \in {login(in, Ctx(NoHeader, Undefined, NoParam, f))} :
             /\ last' = Answered("login", in, out)
             /\ users' = IF out.status = 200
                         THEN updateLastLogin(WithPassword(out.user))
                         ELSE users

\* ------------------------------------ PUT /users/:id/status (routes/users.js)

\* The values of isActive the isBoolean() validator lets through: the JSON
\* booleans and the string "false" (as "true", "0" and "1", a non-empty
\* string).
BodyBools == {[k |-> "bool", v |-> TRUE], [k |-> "bool", v |-> FALSE],
              [k |-> "str", v |-> "false"]}

\* !isActive: a non-empty string is truthy.
Not(b) == b.k = "bool" /\ ~b.v

\* The schema's cast of a value assigned to a Boolean path.
castBoolean(b) == IF b.k = "bool" THEN b.v ELSE b.v # "false"

\* The chain and the handler up to the save: authenticate,
\* authorize('admin'), the lookup and the guard against deactivating oneself.
\* next counts the calls of next() of the chain.
\* The handler, after authenticate and authorize('admin') let the request
\* through.
statusHandler(in, b) ==
  LET user == findById(in.target) IN
  IF Falsy(user) THEN Reply(b, 404, "User not found")
  ELSE IF toString(in.target) = toString(b.user.id) /\ Not(in.isActive)
  THEN Reply(b, 400, "Cannot deactivate yourself")
  ELSE Reply(b, 200, "")

putStatus(in, r) ==
  LET a == authenticate(r) IN
  IF a.next = 0 THEN a
  ELSE LET b == authorize({"admin"}, a) IN
    IF b.next = 1 THEN b
    ELSE statusHandler(in, b)

\* user.isActive = isActive; await user.save(): only the modified path is
\* written.
PutStatus ==
  /\ UNCHANGED <<now, call, regs, ups, disk, songs>>
  /\ \E h \in SessionHeaders, target \in UserIds, isActive \in BodyBools :
       LET in == [hdr |-> h, target |-> target, isActive |-> isActive,
                  fault |-> FALSE]
           out == putStatus(in, Ctx(h, Undefined, Str(target), FALSE))
       IN  /\ last' = Answered("status", in, out)
           /\ users' = IF out.status = 200
                       THEN saveUser(findById(target),
                                     [isActive |-> castBoolean(isActive)])
                       ELSE users

\* The clock moves.
Tick ==
  /\ now < MaxTime
  /\ now' = now + 1
  /\ UNCHANGED <<users, call, last, regs, ups, disk, songs>>

\* A store holding a contributor (1) and an admin (2), both registered and
\* active.
InitAuth ==
  /\ users = [id \in UserIds |->
                IF id = 1 THEN NewUser("ann@x.io", "pw1", "contributor")
                ELSE IF id = 2 THEN NewUser(AdminEmail, "pw1", "admin")
                ELSE Absent]
  /\ now = 0
  /\ call = NoCall
  /\ InitRest

NextAuth ==
  \/ GetMe
  \/ PostRefresh
  \/ PostLogout
  \/ PostLogin
  \/ PutStatus
  \/ Tick

SpecAuth == InitAuth /\ [][NextAuth]_vars

\* ------------------------------- registration (routes/auth.js, routes/setup)

\* normalizeEmail() of the validation chain: the address in lower case (the
\* addresses here are of no provider it rewrites further).
normalizeEmail(email) == Lower(email)

DuplicateKeyNoIndex(email) == FALSE

\* The unique index on email: a save of a new document whose address, as the
\* schema's setter stores it, is the address of a stored document is refused
\* with E11000.
DuplicateKey(email) ==
  \E id \in UserIds : users[id].exists /\ users[id].email = Lower(email)

\* The _id of the next document: the first id the store has not used.
NewId ==
  CHOOSE id \in UserIds :
    ~users[id].exists /\ \A j \in 1..(id - 1) : users[j].exists

HasRoom == \E id \in UserIds : ~users[id].exists

\* The document a handler holds after its save.
Saved(id, role) == [k |-> "doc", id |-> id, role |-> role, isActive |-> TRUE]

\* A request between its lookup and its save.
Pending(route, in, r) == [pc |-> "save", route |-> route, in |-> in, r |-> r]

\* The role of a body that has none.
NoRole == ""

\* The roles a registration asks for: none, or one of its own choice.
RegRoles == {NoRole, "admin"}

\* const { ..., role = 'senior' } = req.body
roleOfBodyIgnored(body) == "senior"

roleOfBody(body) == IF body.role = NoRole THEN "senior" ELSE body.role

\* The password of the registrations.
RegPasswords == {"pw1"}

\* POST /register up to the await of User.findOne: the validators answer 400,
\* a store failure 500, a stored address 400; else the handler goes on to
\* its save.
PostRegister(i) ==
  /\ regs[i] = Idle
  /\ UNCHANGED <<users, now, call, ups, disk, songs>>
  /\ \E email \in RawEmails, password \in RegPasswords, role \in RegRoles,
        valid, f \in BOOLEAN :
       LET in == [hdr |-> NoHeader, email |-> email, password |-> password,
                  role |-> role, valid |-> valid, fault |-> f]
           r == Ctx(NoHeader, Undefined, NoParam, f)
       IN  IF ~valid
           THEN /\ last' = Answered("register", in,
                                    Reply(r, 400, "Validation failed"))
                /\ regs' = regs
           ELSE IF f
           THEN /\ last' = Answered("register", in,
                                    Reply(r, 500, "Registration failed"))
                /\ regs' = regs
           ELSE IF ~Falsy(findOne(normalizeEmail(email)))
           THEN /\ last' = Answered("register", in,
                                    Reply(r, 400, "User already exists"))
                /\ regs' = regs
           ELSE /\ last' = last
                /\ regs' = [regs EXCEPT ![i] = Pending("register", in, r)]

\* POST /register from await user.save() on: the index refuses a duplicate
\* and the catch answers 500; else the document is stored, with the password
\* hashed by the pre-save hook, and the answer is 201 with a token.
PostRegisterSave(i) ==
  /\ regs[i].pc = "save"
  /\ regs[i].route = "register"
  /\ regs' = [regs EXCEPT ![i] = Idle]
  /\ UNCHANGED <<now, call, ups, disk, songs>>
  /\ LET in == regs[i].in
         r == regs[i].r
     IN  \/ /\ DuplicateKey(normalizeEmail(in.email))
            /\ users' = users
            /\ last' = Answered("register", in,
                                Reply(r, 500, "Registration failed"))
         \/ /\ ~DuplicateKey(normalizeEmail(in.email))
            /\ HasRoom
            /\ users' = [users EXCEPT ![NewId] =
                           NewUser(Lower(normalizeEmail(in.email)),
                                   in.password, roleOfBody(in))]
            /\ last' = Answered("register", in,
                 [Reply([r EXCEPT !.user = Saved(NewId, roleOfBody(in))],
                        201, "")
                    EXCEPT !.token = generateToken(NewId)])

\* The body create-admin acts on: it reads none of the request.
adminData ==
  [hdr |-> NoHeader, email |-> AdminEmail, password |-> "admin123",
   role |-> "admin", valid |-> TRUE, fault |-> FALSE]

\* POST /create-admin up to the await of User.findOne: a stored admin address
\* answers 200.
PostCreateAdmin(i) ==
  /\ regs[i] = Idle
  /\ UNCHANGED <<users, now, call, ups, disk, songs>>
  /\ LET r == Ctx(NoHeader, Undefined, NoParam, FALSE) IN
     IF ~Falsy(findOne(adminData.email))
     THEN /\ last' = Answered("create-admin", adminData,
                              Reply(r, 200, "Admin user already exists"))
          /\ regs' = regs
     ELSE /\ last' = last
          /\ regs' = [regs EXCEPT ![i] = Pending("create-admin", adminData, r)]

\* POST /create-admin from await adminUser.save() on: error code 11000 is
\* answered 400.
PostCreateAdminSave(i) ==
  /\ regs[i].pc = "save"
  /\ regs[i].route = "create-admin"
  /\ regs' = [regs EXCEPT ![i] = Idle]
  /\ UNCHANGED <<now, call, ups, disk, songs>>
  /\ LET r == regs[i].r IN
     \/ /\ DuplicateKey(adminData.email)
        /\ users' = users
        /\ last' = Answered("create-admin", adminData,
                            Reply(r, 400, "User already exists"))
     \/ /\ ~DuplicateKey(adminData.email)
        /\ HasRoom
        /\ users' = [users EXCEPT ![NewId] =
                       NewUser(Lower(adminData.email), adminData.password,
                               adminData.role)]
        /\ last' = Answered("create-admin", adminData,
             Reply([r EXCEPT !.user = Saved(NewId, adminData.role)], 201, ""))

\* An empty store.
InitReg ==
  /\ users = [id \in UserIds |-> Absent]
  /\ now = 0
  /\ call = NoCall
  /\ InitRest

NextReg ==
  \E i \in 1..MaxRegReq :
    \/ PostRegister(i)
    \/ PostRegisterSave(i)
    \/ PostCreateAdmin(i)
    \/ PostCreateAdminSave(i)

SpecReg == InitReg /\ [][NextReg]_vars

\* ------------------------------------------------ Number (IEEE 754 binary64)

\* The bits of the significand of a JavaScript Number.
Precision == 53

\* The Numbers of the rating statistics are zero or lie between 1 and 2^11,
\* and each of those is a whole multiple of 2^-52. A Number is held as that
\* multiple, in three limbs: h * Limb^2 + m * Limb + l.
Limb == 2^22

Zero == [h |-> 0, m |-> 0, l |-> 0]

\* The limbs of h * Limb^2 + m * Limb + l with m and l below Limb.
Carry(h, m, l) ==
  [h |-> h + (m + l \div Limb) \div Limb,
   m |-> (m + l \div Limb) % Limb,
   l |-> l % Limb]

\* The number of bits of a natural number.
BitLen(k) ==
  CHOOSE b \in 0..30 : (k = 0 /\ b = 0) \/ (k > 0 /\ 2^b > k /\ 2^b <= 2 * k)

\* The Number nearest to x quarters of 2^-52 (and a fraction of a quarter
\* more if sticky), ties to even: the bits beyond the Precision most
\* significant ones are rounded away.
Round(x, sticky) ==
  IF x = Zero THEN Zero
  ELSE LET d == 44 + BitLen(x.h) - Precision
           keep == x.l \div 2^d
           low == x.l % 2^d
           half == 2^(d - 1)
           up == low > half \/ (low = half /\ (sticky \/ keep % 2 = 1))
           y == Carry(x.h, x.m, (keep + (IF up THEN 1 ELSE 0)) * 2^d)
       IN  [h |-> y.h \div 4,
            m |-> y.m \div 4 + (y.h % 4) * (Limb \div 4),
            l |-> y.l \div 4 + (y.m % 4) * (Limb \div 4)]

\* A natural number as a Number.
FromNat(k) == [h |-> k * 2^8, m |-> 0, l |-> 0]

\* x * c for a Number x and a natural c.
Mul(x, c) == Round(Carry(4 * c * x.h, 4 * c * x.m, 4 * c * x.l), FALSE)

\* x + k for a Number x and a natural k.
Add(x, k) == Round(Carry(4 * x.h + 4 * FromNat(k).h, 4 * x.m, 4 * x.l), FALSE)

\* x / n for a Number x and a natural n > 0: long division, limb by limb.
Div(x, n) ==
  LET y == Carry(4 * x.h, 4 * x.m, 4 * x.l)
      rh == y.h % n
      rm == (rh * Limb + y.m) % n
      rl == (rm * Limb + y.l) % n
  IN  Round([h |-> y.h \div n,
             m |-> (rh * Limb + y.m) \div n,
             l |-> (rm * Limb + y.l) \div n], rl # 0)

\* ------------------------------------------- uploads (middleware/upload.js)

\* limits.fileSize of songUpload and of profileImageUpload, in MiB
songFileSize == 100
profileFileSize == 5

\* A part of a multipart form: no file, or a file with its declared MIME
\* type, its original name (the sequence of its characters, without a path
\* separator) and its size in MiB.
NoPart == [k |-> "none"]
File(mimetype, originalname, size) ==
  [k |-> "file", mimetype |-> mimetype, originalname |-> originalname,
   size |-> size]

\* A file whose MIME type and name agree: "audio" an MP3, "image" a PNG,
\* "other" a text file.
Part(type, size) ==
  IF type = "audio" THEN File("audio/mpeg", <<"s", ".", "m", "p", "3">>, size)
  ELSE IF type = "image"
  THEN File("image/png", <<"c", ".", "p", "n", "g">>, size)
  ELSE File("text/plain", <<"n", ".", "t", "x", "t">>, size)

AudioParts ==
  {NoPart, Part("other", 1), Part("audio", 1), Part("audio", songFileSize + 1)}

ImageParts ==
  {NoPart, Part("other", 1), Part("image", 1),
   Part("image", profileFileSize + 1), Part("image", songFileSize + 1)}

AvatarParts ==
  {NoPart, Part("other", 1), Part("image", 1),
   Part("image", profileFileSize + 1)}

\* storage.destination
destination(fieldname) ==
  IF fieldname = "audio" THEN "uploads/audio"
  ELSE IF fieldname = "coverImage" THEN "uploads/images"
  ELSE "uploads/temp"

\* storage.filename gives every file of every request a name of its own: the
\* number of the request and the field. path is destination/filename.
Stored(k, fieldname) ==
  [dir |-> destination(fieldname), name |-> <<k, fieldname>>]

\* The url a middleware attaches to a stored file.
Url(dir, file) == [dir |-> dir, name |-> file.name]

\* app.use('/uploads', express.static('uploads')): the path a URL is served
\* from.
static(url) ==
  [dir |-> IF url.dir = "/uploads/audio" THEN "uploads/audio"
           ELSE IF url.dir = "/uploads/images" THEN "uploads/images"
           ELSE IF url.dir = "/uploads/temp" THEN "uploads/temp"
           ELSE "",
   name |-> url.name]

\* The index of the last "." of a name, 0 when it has none.
RECURSIVE lastDot(_, _)
lastDot(name, i) ==
  IF i = 0 THEN 0
  ELSE IF name[i] = "." THEN i
  ELSE lastDot(name, i - 1)

\* path.extname of a name without a separator: from the last "." to the end;
\* empty when there is no ".", when the last "." is the first character, and
\* for "..".
extname(name) ==
  LET d == lastDot(name, Len(name)) IN
  IF d <= 1 \/ name = <<".", ".">> THEN <<>>
  ELSE SubSeq(name, d, Len(name))

\* String.prototype.toLowerCase, on the letters of the names.
toLowerCase(name) ==
  [i \in DOMAIN name |->
     IF name[i] = "G" THEN "g"
     ELSE IF name[i] = "O" THEN "o"
     ELSE IF name[i] = "F" THEN "f"
     ELSE IF name[i] = "I" THEN "i"
     ELSE IF name[i] = "M" THEN "m"
     ELSE IF name[i] = "P" THEN "p"
     ELSE IF name[i] = "N" THEN "n"
     ELSE name[i]]

audioMimes ==
  {"audio/mpeg", "audio/mp3", "audio/wav", "audio/wave", "audio/x-wav",
   "audio/aac", "audio/ogg", "audio/webm", "audio/mp4", "audio/m4a",
   "audio/x-m4a", "audio/flac"}

audioExtensions ==
  {<<".", "m", "p", "3">>, <<".", "w", "a", "v">>, <<".", "a", "a", "c">>,
   <<".", "o", "g", "g">>, <<".", "w", "e", "b", "m">>,
   <<".", "m", "p", "4">>, <<".", "m", "4", "a">>,
   <<".", "f", "l", "a", "c">>}

imageMimes ==
  {"image/jpeg", "image/jpg", "image/png", "image/gif", "image/webp"}

imageExtensions ==
  {<<".", "j", "p", "g">>, <<".", "j", "p", "e", "g">>,
   <<".", "p", "n", "g">>, <<".", "g", "i", "f">>,
   <<".", "w", "e", "b", "p">>}

audioFileFilterBoth(file) ==
  /\ file.mimetype \in audioMimes
  /\ toLowerCase(extname(file.originalname)) \in audioExtensions

audioFileFilter(file) ==
  \/ file.mimetype \in audioMimes
  \/ toLowerCase(extname(file.originalname)) \in audioExtensions

imageFileFilter(file) ==
  \/ file.mimetype \in imageMimes
  \/ toLowerCase(extname(file.originalname)) \in imageExtensions

combinedFileFilter(fieldname, file) ==
  IF fieldname = "audio" THEN audioFileFilter(file)
  ELSE IF fieldname = "coverImage" THEN imageFileFilter(file)
  ELSE FALSE

\* The fields of a form that carry a file.
Sent(form) == {f \in DOMAIN form : form[f] # NoPart}

\* songUpload.fields(...) calls back with an error: a file the filter
\* refuses, or one over limits.fileSize. multer has then removed what it had
\* written for the request.
songUploadFails(form) ==
  \E f \in Sent(form) :
    ~combinedFileFilter(f, form[f]) \/ form[f].size > songFileSize

\* profileImageUpload.single('avatar') calls back with an error.
profileImageUploadFails(form) ==
  \E f \in Sent(form) :
    ~imageFileFilter(form[f]) \/ form[f].size > profileFileSize

\* req.files / req.file after an upload without error: the files written.
reqFiles(k, form) == {Stored(k, f) : f \in Sent(form)}

\* req.cleanup(): deleteFile on req.files.audio[0], req.files.coverImage[0]
\* and req.file; what is left of the disk.
cleanup(files, d) == d \ files

\* What a request leaves: its response and the disk and the stores after it.
Left(r, d, s, u) == [out |-> r, disk |-> d, songs |-> s, users |-> u]

\* ------------------------------------------------- POST /songs (routes/songs)

\* A path of a document that was never set (moderatedBy, moderatedAt).
Unset == -1

SongAlwaysPending(k, r, form) ==
  [id |-> k,
   uploadedBy |-> r.user.id,
   status |-> "pending",
   moderatedBy |-> Unset,
   moderatedAt |-> Unset,
   moderationNotes |-> "",
   isActive |-> TRUE,
   playCount |-> 0,
   ratingCount |-> 0,
   averageRating |-> Zero,
   audioFile |-> Url("/uploads/audio", Stored(k, "audio")),
   coverImage |-> IF form["coverImage"] # NoPart
                  THEN Url("/uploads/images", Stored(k, "coverImage"))
                  ELSE NoFile]

\* new Song(songData) as saved: for an admin status 'approved', moderatedBy
\* the uploader and moderatedAt the time of the request; else the schema's
\* defaults.
Song(k, r, form) ==
  [id |-> k,
   uploadedBy |-> r.user.id,
   status |-> IF r.user.role = "admin" THEN "approved" ELSE "pending",
   moderatedBy |-> IF r.user.role = "admin" THEN r.user.id ELSE Unset,
   moderatedAt |-> IF r.user.role = "admin" THEN now ELSE Unset,
   moderationNotes |-> "",
   isActive |-> TRUE,
   playCount |-> 0,
   ratingCount |-> 0,
   averageRating |-> Zero,
   audioFile |-> Url("/uploads/audio", Stored(k, "audio")),
   coverImage |-> IF form["coverImage"] # NoPart
                  THEN Url("/uploads/images", Stored(k, "coverImage"))
                  ELSE NoFile]

\* uploadSongFiles, cleanupFiles, songValidation, handleValidationErrors and
\* the handler, after authenticate and authorize let the request through.
\* next counts the calls of next() of the chain.
songsUpload(in, r) ==
  IF songUploadFails(in.form)
  THEN Left(Reply(r, 400, "File upload failed"), disk, songs, users)
  ELSE LET files == reqFiles(in.k, in.form)
           d == disk \cup files
       IN
    IF in.form["audio"] = NoPart
    THEN Left(Reply(r, 400, "Audio file required"), d, songs, users)
    ELSE IF ~in.valid
    THEN Left(Reply(Proceed(Proceed(r)), 400, "Validation failed"),
              d, songs, users)
    ELSE IF in.saveFails
    THEN Left(Reply(Proceed(Proceed(Proceed(r))), 500, "Song upload failed"),
              cleanup(files, d), songs, users)
    ELSE Left(Reply(Proceed(Proceed(Proceed(r))), 201, ""),
              d, songs \cup {Song(in.k, r, in.form)}, users)

\* The headers of the upload requests: none, or a token just issued to a
\* stored identity.
UpHeaders ==
  {NoHeader} \cup
  {Bearer(generateToken(id)) : id \in {i \in UserIds : users[i].exists}}

postSongs(in, r) ==
  LET a == authenticate(r) IN
  IF a.next = 0 THEN Left(a, disk, songs, users)
  ELSE LET b == authorize({"contributor", "admin"}, a) IN
    IF b.next = 1 THEN Left(b, disk, songs, users)
    ELSE songsUpload(in, b)

PostSongs ==
  /\ ups < MaxUpReq
  /\ ups' = ups + 1
  /\ UNCHANGED <<now, call, regs>>
  /\ \E h \in UpHeaders, audio \in AudioParts, coverImage \in ImageParts,
        valid, saveFails \in BOOLEAN :
       LET in == [hdr |-> h, k |-> ups + 1,
                  form |-> [audio |-> audio, coverImage |-> coverImage],
                  valid |-> valid, saveFails |-> saveFails, fault |-> FALSE]
       IN  /\ valid \/ ~saveFails
           /\ \E left \in {postSongs(in, Ctx(h, Undefined, NoParam, FALSE))} :
                /\ last' = Answered("songs", in, left.out)
                /\ disk' = left.disk
                /\ songs' = left.songs
                /\ users' = left.users

\* ------------------------------------- POST /users/:id/avatar (routes/users)

\* uploadProfileImage, cleanupFiles and the handler, after authenticate let
\* the request through.
avatarUpload(in, r) ==
  IF profileImageUploadFails(in.form)
  THEN Left(Reply(r, 400, "Image upload failed"), disk, songs, users)
  ELSE LET files == reqFiles(in.k, in.form)
           d == disk \cup files
           b == Proceed(Proceed(r))
       IN
    IF r.id # toString(r.user.id) /\ r.user.role # "admin"
    THEN Left(Reply(b, 403, "Access denied"), d, songs, users)
    ELSE IF in.form["avatar"] = NoPart
    THEN Left(Reply(b, 400, "No image provided"), d, songs, users)
    ELSE IF Falsy(findById(in.target))
    THEN Left(Reply(b, 404, "User not found"), cleanup(files, d), songs, users)
    ELSE IF in.saveFails
    THEN Left(Reply(b, 500, "Avatar upload failed"),
              cleanup(files, d), songs, users)
    ELSE Left(Reply(b, 200, ""), d, songs,
              saveUser(findById(in.target),
                       [avatar |-> Url("/uploads/images",
                                       Stored(in.k, "avatar"))]))

postAvatar(in, r) ==
  LET a == authenticate(r) IN
  IF a.next = 0 THEN Left(a, disk, songs, users)
  ELSE avatarUpload(in, a)

PostAvatar ==
  /\ ups < MaxUpReq
  /\ ups' = ups + 1
  /\ UNCHANGED <<now, call, regs>>
  /\ \E h \in UpHeaders, target \in UserIds \cup {0},
        avatar \in AvatarParts, saveFails \in BOOLEAN :
       LET in == [hdr |-> h, k |-> ups + 1, target |-> target,
                  form |-> [avatar |-> avatar],
                  saveFails |-> saveFails, fault |-> FALSE]
       IN  \E left \in {postAvatar(in, Ctx(h, Undefined, Str(target), FALSE))} :
             /\ last' = Answered("avatar", in, left.out)
             /\ disk' = left.disk
             /\ songs' = left.songs
             /\ users' = left.users

\* The store of InitAuth at any time of the clock, empty upload directories
\* and an empty catalog.
InitUp ==
  /\ users = [id \in UserIds |->
                IF id = 1 THEN NewUser("ann@x.io", "pw1", "contributor")
                ELSE IF id = 2 THEN NewUser(AdminEmail, "pw1", "admin")
                ELSE Absent]
  /\ now \in Times
  /\ call = NoCall
  /\ InitRest

NextUp ==
  \/ PostSongs
  \/ PostAvatar

SpecUp == InitUp /\ [][NextUp]_vars

\* ------------------------------------------------- Song model (models/Song)

\* The document with the id, or null.
findSong(id) ==
  IF \E s \in songs : s.id = id
  THEN [k |-> "doc", song |-> CHOOSE s \in songs : s.id = id]
  ELSE Null

\* doc.save() of an existing document: the modified paths of the document
\* in hand are written to the stored one.
save(doc, paths) ==
  {IF s.id = doc.id
   THEN [p \in DOMAIN s |-> IF p \in paths THEN doc[p] ELSE s[p]]
   ELSE s : s \in songs}

\* rating < 1 || rating > 5
OutOfRange(rating) == rating < 1 \/ rating > 5

\* songSchema.methods.addRating past its range check: the document in hand
\* after the assignments to stats.
addRating(song, rating) ==
  LET totalRating == Mul(song.averageRating, song.ratingCount) IN
  [song EXCEPT
     !.ratingCount = song.ratingCount + 1,
     !.averageRating = Div(Add(totalRating, rating), song.ratingCount + 1)]

\* The track of a contributor's upload, as POST /songs created it.
FirstSong ==
  Song(1, [user |-> [k |-> "doc", id |-> 1, role |-> "contributor",
                     isActive |-> TRUE]],
       [audio |-> Part("audio", 1), coverImage |-> NoPart])

\* The values addRating is called with: the ratings and one on either side.
Ratings == 0..6

\* The ratings addRating has accepted so far: how many, and their sum.
Accepted ==
  IF call.fn = "addRating" THEN call.accepted ELSE [count |-> 0, sum |-> 0]

\* song.addRating(rating) on the stored document: it throws on a rating out
\* of range, else it saves stats.
AddRating ==
  /\ UNCHANGED <<users, now, last, regs, ups, disk>>
  /\ \E rating \in Ratings :
       LET song == findSong(1).song IN
       IF OutOfRange(rating)
       THEN /\ songs' = songs
            /\ call' = [fn |-> "addRating", in |-> [song |-> song, rating |-> rating],
                        out |-> [ok |-> FALSE], accepted |-> Accepted]
       ELSE /\ song.ratingCount < MaxRatings
            /\ songs' = save(addRating(song, rating),
                             {"ratingCount", "averageRating"})
            /\ call' = [fn |-> "addRating", in |-> [song |-> song, rating |-> rating],
                        out |-> [ok |-> TRUE],
                        accepted |-> [count |-> Accepted.count + 1,
                                      sum |-> Accepted.sum + rating]]

\* A catalog of one track with no ratings.
InitRate ==
  /\ users = [id \in UserIds |->
                IF id = 1 THEN NewUser("ann@x.io", "pw1", "contributor")
                ELSE IF id = 2 THEN NewUser(AdminEmail, "pw1", "admin")
                ELSE Absent]
  /\ now = 0
  /\ call = NoCall
  /\ last = NoAnswer
  /\ regs = [i \in 1..MaxRegReq |-> Idle]
  /\ ups = 0
  /\ disk = {}
  /\ songs = {FirstSong}

NextRate == AddRating

SpecRate == InitRate /\ [][NextRate]_vars

\* ------------------------------------------------ moderation (models/Song)

\* The paths approve and reject assign.
Moderation == {"status", "moderatedBy", "moderatedAt", "moderationNotes"}

approveIfPending(song, moderatorId, notes) ==
  IF song.status # "pending" THEN song
  ELSE [song EXCEPT !.status = "approved", !.moderatedBy = moderatorId,
                    !.moderatedAt = now, !.moderationNotes = notes]

\* songSchema.methods.approve: the document in hand after the assignments.
approve(song, moderatorId, notes) ==
  [song EXCEPT !.status = "approved", !.moderatedBy = moderatorId,
               !.moderatedAt = now, !.moderationNotes = notes]

\* songSchema.methods.reject
reject(song, moderatorId, notes) ==
  [song EXCEPT !.status = "rejected", !.moderatedBy = moderatorId,
               !.moderatedAt = now, !.moderationNotes = notes]

\* The notes of a moderation: the default and a text.
Notes == {"", "ok"}

\* The ids of the stored tracks.
SongIds == {s.id : s \in songs}

\* The users a moderation can name.
Moderators == {id \in UserIds : users[id].exists}

\* song.approve(moderatorId, notes) on a stored track, and its save.
Approve ==
  /\ UNCHANGED <<users, now, call, regs, ups, disk>>
  /\ \E id \in SongIds, moderatorId \in Moderators, notes \in Notes :
       /\ songs' = save(approve(findSong(id).song, moderatorId, notes),
                        Moderation)
       /\ last' = Answered("approve",
                           [song |-> findSong(id).song,
                            moderatorId |-> moderatorId, notes |-> notes],
                           [status |-> 0])

\* song.reject(moderatorId, notes) on a stored track, and its save.
Reject ==
  /\ UNCHANGED <<users, now, call, regs, ups, disk>>
  /\ \E id \in SongIds, moderatorId \in Moderators, notes \in Notes :
       /\ songs' = save(reject(findSong(id).song, moderatorId, notes),
                        Moderation)
       /\ last' = Answered("reject",
                           [song |-> findSong(id).song,
                            moderatorId |-> moderatorId, notes |-> notes],
                           [status |-> 0])

\* The track of an admin's upload, as POST /songs created it.
SecondSong ==
  Song(2, [user |-> [k |-> "doc", id |-> 2, role |-> "admin",
                     isActive |-> TRUE]],
       [audio |-> Part("audio", 1), coverImage |-> NoPart])

\* A contributor and an admin, and the track each of them uploaded.
InitMod ==
  /\ users = [id \in UserIds |->
                IF id = 1 THEN NewUser("ann@x.io", "pw1", "contributor")
                ELSE IF id = 2 THEN NewUser(AdminEmail, "pw1", "admin")
                ELSE Absent]
  /\ now = 0
  /\ call = NoCall
  /\ last = NoAnswer
  /\ regs = [i \in 1..MaxRegReq |-> Idle]
  /\ ups = 0
  /\ disk = {}
  /\ songs = {FirstSong, SecondSong}

NextMod ==
  \/ Approve
  \/ Reject
  \/ Tick

SpecMod == InitMod /\ [][NextMod]_vars

\* ------------------------------------------- the catalog (routes/songs, users)

\* Song.find(query): the stored tracks whose paths have the query's values.
find(query) == {s \in songs : \A p \in DOMAIN query : s[p] = query[p]}

\* Song.findOne(query): one of them, or null.
findOneSong(query) ==
  IF find(query) = {} THEN Null
  ELSE [k |-> "doc", song |-> CHOOSE s \in find(query) : TRUE]

updateManyReplaces(filter, update) ==
  {IF s \in find(filter)
   THEN [s EXCEPT !.isActive = update.isActive, !.status = "pending",
                  !.moderatedBy = Unset, !.moderatedAt = Unset]
   ELSE s : s \in songs}

\* Song.updateMany(filter, update)
updateMany(filter, update) ==
  {IF s \in find(filter)
   THEN [p \in DOMAIN s |-> IF p \in DOMAIN update THEN update[p] ELSE s[p]]
   ELSE s : s \in songs}

\* The filter of the public queries.
Visible == [status |-> "approved", isActive |-> TRUE]

\* The query of the routes that take a track by its id.
VisibleId(id) == [id |-> id, status |-> "approved", isActive |-> TRUE]

\* songSchema.methods.incrementPlayCount: the document in hand after the
\* assignment.
incrementPlayCount(song) == [song EXCEPT !.playCount = song.playCount + 1]

\* The response with the tracks it carries, or the track the handler acted on.
With(r, found) ==
  [p \in DOMAIN r \cup {"found"} |-> IF p = "found" THEN found ELSE r[p]]

\* What a handler leaves: the response, the tracks and the users.
Kept(r, s, u) == [out |-> r, songs |-> s, users |-> u]

\* PUT /songs/:id/play
putPlay(in, r) ==
  LET a == optionalAuth(r)
      song == findOneSong(VisibleId(in.id))
  IN
  IF Falsy(song) THEN Kept(With(Reply(a, 404, "Song not found"), {}), songs, users)
  ELSE Kept(With(Reply(a, 200, ""), {song.song}),
            save(incrementPlayCount(song.song), {"playCount"}), users)

\* POST /songs/:id/rate
postRate(in, r) ==
  LET a == authenticate(r) IN
  IF a.next = 0 THEN Kept(a, songs, users)
  ELSE IF OutOfRange(in.rating)
  THEN Kept(Reply(a, 400, "Validation failed"), songs, users)
  ELSE LET b == Proceed(a)
           song == findOneSong(VisibleId(in.id))
       IN
    IF Falsy(song) THEN Kept(Reply(b, 404, "Song not found"), songs, users)
    ELSE Kept(Reply(b, 200, ""),
              save(addRating(song.song, in.rating),
                   {"ratingCount", "averageRating"}), users)

deleteSongNoOwnerCheck(in, r) ==
  LET a == authenticate(r) IN
  IF a.next = 0 THEN Kept(a, songs, users)
  ELSE IF Falsy(findSong(in.id))
  THEN Kept(Reply(a, 404, "Song not found"), songs, users)
  ELSE Kept(Reply(a, 200, ""),
            save([findSong(in.id).song EXCEPT !.isActive = FALSE],
                 {"isActive"}), users)

\* DELETE /songs/:id
deleteSong(in, r) ==
  LET a == authenticate(r) IN
  IF a.next = 0 THEN Kept(a, songs, users)
  ELSE LET song == findSong(in.id) IN
    IF Falsy(song) THEN Kept(Reply(a, 404, "Song not found"), songs, users)
    ELSE IF /\ toString(song.song.uploadedBy) # toString(a.user.id)
            /\ a.user.role # "admin"
    THEN Kept(Reply(a, 403, "Access denied"), songs, users)
    ELSE Kept(Reply(a, 200, ""),
              save([song.song EXCEPT !.isActive = FALSE], {"isActive"}),
              users)

\* DELETE /users/:id up to the writes: authenticate and the three guards.
deleteUserGuards(in, r) ==
  LET a == authenticate(r) IN
  IF a.next = 0 THEN a
  ELSE IF r.id # toString(a.user.id) /\ a.user.role # "admin"
  THEN Reply(a, 403, "Access denied")
  ELSE IF Falsy(findById(in.target)) THEN Reply(a, 404, "User not found")
  ELSE IF r.id = toString(a.user.id) /\ a.user.role = "admin"
  THEN Reply(a, 400, "Cannot delete admin account")
  ELSE Reply(a, 200, "")

\* DELETE /users/:id: the user's save, then the update of their tracks.
deleteUser(in, r) ==
  LET a == deleteUserGuards(in, r) IN
  IF a.status # 200 THEN Kept(a, songs, users)
  ELSE Kept(a, updateMany([uploadedBy |-> in.target], [isActive |-> FALSE]),
            saveUser(findById(in.target), [isActive |-> FALSE]))

\* The ids a route parameter names: those of the stored tracks and another.
SongParams == SongIds \cup {0}

\* The status of GET /users/:id/songs: not sent, or one the validation lets
\* through.
StatusQueries == {"", "approved", "pending", "rejected"}

\* GET /songs, /songs/popular, /songs/recent
getSongs(r) == With(Reply(optionalAuth(r), 200, ""), find(Visible))

\* GET /songs/:id
getSong(in, r) ==
  LET a == optionalAuth(r)
      song == findOneSong(VisibleId(in.id))
  IN IF Falsy(song) THEN With(Reply(a, 404, "Song not found"), {})
     ELSE With(Reply(a, 200, ""), {song.song})

\* GET /songs/user/:userId
getSongsOfUser(in, r) ==
  With(Reply(optionalAuth(r), 200, ""),
       find([uploadedBy |-> in.target, status |-> "approved",
             isActive |-> TRUE]))

\* GET /users/:id/songs
getUserSongs(in, r) ==
  LET status == IF in.status = "" THEN "approved" ELSE in.status IN
  With(Reply(Proceed(r), 200, ""),
       find([uploadedBy |-> in.target, status |-> status, isActive |-> TRUE]))

\* The track the id names is missing, or can receive one more play or
\* rating.
HasPlays(id) ==
  \A s \in songs : s.id = id => s.playCount + s.ratingCount < MaxPlays

\* The rating of a request body: one the validation refuses and one it lets
\* through.
BodyRatings == {0, 4}

PutPlay ==
  /\ UNCHANGED <<now, call, regs, ups, disk>>
  /\ \E h \in UpHeaders, id \in SongParams :
       /\ HasPlays(id)
       /\ \E left \in {putPlay([hdr |-> h, id |-> id],
                               Ctx(h, Undefined, Str(id), FALSE))} :
            /\ last' = Answered("play", [hdr |-> h, id |-> id], left.out)
            /\ songs' = left.songs
            /\ users' = left.users

PostRate ==
  /\ UNCHANGED <<now, call, regs, ups, disk>>
  /\ \E h \in UpHeaders, id \in SongParams, rating \in BodyRatings :
       /\ HasPlays(id)
       /\ \E left \in {postRate([hdr |-> h, id |-> id, rating |-> rating],
                                Ctx(h, Undefined, Str(id), FALSE))} :
            /\ last' = Answered("rate", [hdr |-> h, id |-> id,
                                         rating |-> rating], left.out)
            /\ songs' = left.songs
            /\ users' = left.users

DeleteSong ==
  /\ UNCHANGED <<now, call, regs, ups, disk>>
  /\ \E h \in UpHeaders, id \in SongParams :
       \E left \in {deleteSong([hdr |-> h, id |-> id],
                               Ctx(h, Undefined, Str(id), FALSE))} :
         /\ last' = Answered("deleteSong", [hdr |-> h, id |-> id], left.out)
         /\ songs' = left.songs
         /\ users' = left.users

DeleteUser ==
  /\ UNCHANGED <<now, call, regs, ups, disk>>
  /\ \E h \in UpHeaders, target \in UserIds :
       \E left \in {deleteUser([hdr |-> h, target |-> target],
                               Ctx(h, Undefined, Str(target), FALSE))} :
         /\ last' = Answered("deleteUser", [hdr |-> h, target |-> target],
                             left.out)
         /\ songs' = left.songs
         /\ users' = left.users

GetSongs ==
  /\ UNCHANGED <<users, now, call, regs, ups, disk, songs>>
  /\ \E h \in UpHeaders, route \in {"list", "popular", "recent"} :
       last' = Answered(route, [hdr |-> h],
                        getSongs(Ctx(h, Undefined, NoParam, FALSE)))

\* GET /songs/featured: the visible tracks that are featured, whichever they
\* are.
GetFeatured ==
  /\ UNCHANGED <<users, now, call, regs, ups, disk, songs>>
  /\ \E h \in UpHeaders, featured \in SUBSET find(Visible) :
       last' = Answered("featured", [hdr |-> h],
                        With(Reply(optionalAuth(Ctx(h, Undefined, NoParam,
                                                    FALSE)), 200, ""),
                             featured))

GetSong ==
  /\ UNCHANGED <<users, now, call, regs, ups, disk, songs>>
  /\ \E h \in UpHeaders, id \in SongParams :
       last' = Answered("song", [hdr |-> h, id |-> id],
                        getSong([hdr |-> h, id |-> id],
                                Ctx(h, Undefined, Str(id), FALSE)))

GetSongsOfUser ==
  /\ UNCHANGED <<users, now, call, regs, ups, disk, songs>>
  /\ \E h \in UpHeaders, target \in UserIds :
       last' = Answered("songsOfUser", [hdr |-> h, target |-> target],
                        getSongsOfUser([hdr |-> h, target |-> target],
                                       Ctx(h, Undefined, Str(target), FALSE)))

GetUserSongs ==
  /\ UNCHANGED <<users, now, call, regs, ups, disk, songs>>
  /\ \E target \in UserIds, status \in StatusQueries :
       last' = Answered("userSongs", [hdr |-> NoHeader, target |-> target,
                                      status |-> status],
                        getUserSongs([target |-> target, status |-> status],
                                     Ctx(NoHeader, Undefined, Str(target),
                                         FALSE)))

\* A contributor and an admin, the admin's track, and the contributor's
\* track as it was uploaded or as a moderation left it.
InitCat ==
  /\ users = [id \in UserIds |->
                IF id = 1 THEN NewUser("ann@x.io", "pw1", "contributor")
                ELSE IF id = 2 THEN NewUser(AdminEmail, "pw1", "admin")
                ELSE Absent]
  /\ now = 0
  /\ call = NoCall
  /\ last = NoAnswer
  /\ regs = [i \in 1..MaxRegReq |-> Idle]
  /\ ups = 0
  /\ disk = {}
  /\ \E first \in {FirstSong, approve(FirstSong, 2, ""),
                   reject(FirstSong, 2, "ok")} :
       songs = {first, SecondSong}

\* The routes that write stored tracks.
NextCat ==
  \/ PutPlay
  \/ PostRate
  \/ DeleteSong
  \/ DeleteUser

SpecCat == InitCat /\ [][NextCat]_vars

\* The routes that ask for no credentials, and DELETE /songs/:id.
NextPub ==
  \/ GetSongs
  \/ GetFeatured
  \/ GetSong
  \/ GetSongsOfUser
  \/ GetUserSongs
  \/ PutPlay
  \/ DeleteSong

SpecPub == InitCat /\ [][NextPub]_vars

\* ------------------------------------- play and rate, request by request

\* A request between its query and its save: the chain's context and the
\* document in hand.
Holding(route, in, r, song) ==
  [pc |-> "save", route |-> route, in |-> in, r |-> r, song |-> song]

\* A request that was answered.
Done(route, in, out) == [pc |-> "done", route |-> route, in |-> in, out |-> out]

\* PUT /songs/:id/play up to the await of Song.findOne: none answers 404,
\* else the handler holds the document as the query returned it.
PutPlayFind(i) ==
  /\ regs[i] = Idle
  /\ UNCHANGED <<users, now, call, last, ups, disk, songs>>
  /\ \E h \in UpHeaders, id \in SongParams :
       LET in == [hdr |-> h, id |-> id]
           a == optionalAuth(Ctx(h, Undefined, Str(id), FALSE))
           song == findOneSong(VisibleId(id))
       IN  regs' = [regs EXCEPT ![i] =
                      IF Falsy(song)
                      THEN Done("play", in, Reply(a, 404, "Song not found"))
                      ELSE Holding("play", in, a, song.song)]

\* song.incrementPlayCount(): the count of the document in hand plus one is
\* saved, and the request answered.
PutPlaySave(i) ==
  /\ regs[i].pc = "save"
  /\ regs[i].route = "play"
  /\ UNCHANGED <<users, now, call, last, ups, disk>>
  /\ songs' = save(incrementPlayCount(regs[i].song), {"playCount"})
  /\ regs' = [regs EXCEPT ![i] =
                Done("play", regs[i].in, Reply(regs[i].r, 200, ""))]

\* POST /songs/:id/rate up to the await of Song.findOne.
PostRateFind(i) ==
  /\ regs[i] = Idle
  /\ UNCHANGED <<users, now, call, last, ups, disk, songs>>
  /\ \E h \in UpHeaders, id \in SongParams, rating \in BodyRatings :
       LET in == [hdr |-> h, id |-> id, rating |-> rating]
           a == authenticate(Ctx(h, Undefined, Str(id), FALSE))
           song == findOneSong(VisibleId(id))
       IN  regs' = [regs EXCEPT ![i] =
                      IF a.next = 0 THEN Done("rate", in, a)
                      ELSE IF OutOfRange(rating)
                      THEN Done("rate", in, Reply(a, 400, "Validation failed"))
                      ELSE IF Falsy(song)
                      THEN Done("rate", in,
                                Reply(Proceed(a), 404, "Song not found"))
                      ELSE Holding("rate", in, Proceed(a), song.song)]

\* song.addRating(rating): count and average are computed from the document
\* in hand and saved, and the request answered.
PostRateSave(i) ==
  /\ regs[i].pc = "save"
  /\ regs[i].route = "rate"
  /\ UNCHANGED <<users, now, call, last, ups, disk>>
  /\ songs' = save(addRating(regs[i].song, regs[i].in.rating),
                   {"ratingCount", "averageRating"})
  /\ regs' = [regs EXCEPT ![i] =
                Done("rate", regs[i].in, Reply(regs[i].r, 200, ""))]

NextRace ==
  \E i \in 1..MaxRegReq :
    \/ PutPlayFind(i)
    \/ PutPlaySave(i)
    \/ PostRateFind(i)
    \/ PostRateSave(i)

\* The catalog, and no request in flight.
SpecRace == InitCat /\ [][NextRace]_vars

\* ---------------------- DELETE /users/:id and POST /songs, request by request

\* A request of DELETE /users/:id or POST /songs between two of its awaits.
At(pc, route, in, r) == [pc |-> pc, route |-> route, in |-> in, r |-> r]

\* DELETE /users/:id up to the await of user.save(): authenticate, the
\* ownership check, User.findById and the guard of the admin's own account.
DeleteUserFind(i) ==
  /\ regs[i] = Idle
  /\ UNCHANGED <<users, now, call, ups, disk, songs>>
  /\ \E h \in UpHeaders, target \in UserIds :
       LET in == [hdr |-> h, target |-> target]
           a == deleteUserGuards(in, Ctx(h, Undefined, Str(target), FALSE))
       IN  IF a.status # 200
           THEN /\ last' = Answered("deleteUser", in, a)
                /\ regs' = regs
           ELSE /\ last' = last
                /\ regs' = [regs EXCEPT ![i] = At("save", "deleteUser", in, a)]

\* user.isActive = false; await user.save()
DeleteUserSave(i) ==
  /\ regs[i].pc = "save"
  /\ regs[i].route = "deleteUser"
  /\ UNCHANGED <<now, call, last, ups, disk, songs>>
  /\ users' = saveUser(findById(regs[i].in.target), [isActive |-> FALSE])
  /\ regs' = [regs EXCEPT ![i].pc = "updateMany"]

\* await Song.updateMany({ uploadedBy: user._id }, { isActive: false }): the
\* store applies the update.
DeleteUserUpdateMany(i) ==
  /\ regs[i].pc = "updateMany"
  /\ UNCHANGED <<users, now, call, last, ups, disk>>
  /\ songs' = updateMany([uploadedBy |-> regs[i].in.target],
                         [isActive |-> FALSE])
  /\ regs' = [regs EXCEPT ![i].pc = "answer"]

\* The handler resumes after the update and answers.
DeleteUserAnswer(i) ==
  /\ regs[i].pc = "answer"
  /\ UNCHANGED <<users, now, call, ups, disk, songs>>
  /\ last' = Answered("deleteUser", regs[i].in, regs[i].r)
  /\ regs' = [regs EXCEPT ![i] = Idle]

\* The id of the track of the next upload: the ids after those of the two
\* tracks the catalog starts with.
NewSongId == Cardinality({FirstSong, SecondSong}) + ups + 1

\* POST /songs up to the await of song.save(): the chain and the files, with
\* an audio part the filter accepts and valid fields.
PostSongsUpload(i) ==
  /\ regs[i] = Idle
  /\ ups < MaxUpReq
  /\ ups' = ups + 1
  /\ UNCHANGED <<users, now, call, songs>>
  /\ \E h \in UpHeaders :
       LET in == [hdr |-> h, k |-> NewSongId,
                  form |-> [audio |-> Part("audio", 1), coverImage |-> NoPart],
                  valid |-> TRUE, saveFails |-> FALSE, fault |-> FALSE]
           r == Ctx(h, Undefined, NoParam, FALSE)
       IN  \E left \in {postSongs(in, r)} :
             IF left.out.status # 201
             THEN /\ last' = Answered("songs", in, left.out)
                  /\ disk' = left.disk
                  /\ regs' = regs
             ELSE /\ last' = last
                  /\ disk' = left.disk
                  /\ regs' = [regs EXCEPT ![i] =
                                At("save", "songs", in, left.out)]

\* await song.save() and the answer: the track is stored as the handler
\* built it from req.user.
PostSongsSave(i) ==
  /\ regs[i].pc = "save"
  /\ regs[i].route = "songs"
  /\ UNCHANGED <<users, now, call, ups, disk>>
  /\ songs' = songs \cup {Song(regs[i].in.k, regs[i].r, regs[i].in.form)}
  /\ last' = Answered("songs", regs[i].in, regs[i].r)
  /\ regs' = [regs EXCEPT ![i] = Idle]

NextCas ==
  \E i \in 1..MaxRegReq :
    \/ DeleteUserFind(i)
    \/ DeleteUserSave(i)
    \/ DeleteUserUpdateMany(i)
    \/ DeleteUserAnswer(i)
    \/ PostSongsUpload(i)
    \/ PostSongsSave(i)

SpecCas == InitCat /\ [][NextCas]_vars

\* -------------------------------------- accounts (routes/auth, routes/users)

\* PUT /users/:id/role up to the save: authenticate, authorize('admin'), the
\* lookup and the guard against changing one's own role.
roleHandler(in, b) ==
  IF in.role \notin Roles THEN Reply(b, 400, "Validation failed")
  ELSE IF Falsy(findById(in.target)) THEN Reply(b, 404, "User not found")
  ELSE IF toString(in.target) = toString(b.user.id)
  THEN Reply(b, 400, "Cannot change own role")
  ELSE Reply(b, 200, "")

putRole(in, r) ==
  LET a == authenticate(r) IN
  IF a.next = 0 THEN a
  ELSE LET b == authorize({"admin"}, a) IN
    IF b.next = 1 THEN b
    ELSE roleHandler(in, b)

\* The role of a request body: those of the schema and another.
BodyRoles == Roles \cup {"root"}

PutRoleAnswerOnly ==
  /\ UNCHANGED <<users, now, call, regs, ups, disk, songs>>
  /\ \E h \in UpHeaders, target \in UserIds, role \in BodyRoles :
       LET in == [hdr |-> h, target |-> target, role |-> role] IN
       last' = Answered("role", in,
                        putRole(in, Ctx(h, Undefined, Str(target), FALSE)))

\* user.role = role; await user.save()
PutRole ==
  /\ UNCHANGED <<now, call, regs, ups, disk, songs>>
  /\ \E h \in UpHeaders, target \in UserIds, role \in BodyRoles :
       LET in == [hdr |-> h, target |-> target, role |-> role] IN
       \E out \in {putRole(in, Ctx(h, Undefined, Str(target), FALSE))} :
         /\ last' = Answered("role", in, out)
         /\ users' = IF out.status = 200
                     THEN saveUser(findById(target), [role |-> role])
                     ELSE users

\* PUT /auth/preferences: authenticate, the validators, and the save of
\* req.user with the preferences of the body.
putPreferences(in, r) ==
  LET a == authenticate(r) IN
  IF a.next = 0 THEN a
  ELSE IF ~in.valid THEN Reply(a, 400, "Validation failed")
  ELSE Reply(Proceed(a), 200, "")

PutPreferences ==
  /\ UNCHANGED <<now, call, regs, ups, disk, songs>>
  /\ \E h \in UpHeaders, valid \in BOOLEAN :
       LET in == [hdr |-> h, valid |-> valid] IN
       \E out \in {putPreferences(in, Ctx(h, Undefined, NoParam, FALSE))} :
         /\ last' = Answered("preferences", in, out)
         /\ users' = IF out.status = 200
                     THEN saveUser(out.user, [preferences |-> "zh"])
                     ELSE users

\* PUT /users/:id: authenticate, the validators, the ownership check and the
\* lookup.
putProfile(in, r) ==
  LET a == authenticate(r) IN
  IF a.next = 0 THEN a
  ELSE IF ~in.valid THEN Reply(a, 400, "Validation failed")
  ELSE LET b == Proceed(a) IN
    IF r.id # toString(b.user.id) /\ b.user.role # "admin"
    THEN Reply(b, 403, "Access denied")
    ELSE IF Falsy(findById(in.target)) THEN Reply(b, 404, "User not found")
    ELSE Reply(b, 200, "")

\* user.name = name; user.profile.bio = bio; await user.save()
PutProfile ==
  /\ UNCHANGED <<now, call, regs, ups, disk, songs>>
  /\ \E h \in UpHeaders, target \in UserIds, valid \in BOOLEAN :
       LET in == [hdr |-> h, target |-> target, valid |-> valid] IN
       \E out \in {putProfile(in, Ctx(h, Undefined, Str(target), FALSE))} :
         /\ last' = Answered("profile", in, out)
         /\ users' = IF out.status = 200
                     THEN saveUser(findById(target),
                                   [name |-> "Ann", bio |-> ""])
                     ELSE users

\* Two registered identities, both active: the setup's admin, and one of any
\* role; no track.
InitAcct ==
  /\ \E role \in Roles :
       users = [id \in UserIds |->
                  IF id = 1 THEN NewUser("ann@x.io", "pw1", role)
                  ELSE IF id = 2 THEN NewUser(AdminEmail, "pw1", "admin")
                  ELSE Absent]
  /\ now = 0
  /\ call = NoCall
  /\ InitRest

NextAcct ==
  \/ PostLogin
  \/ PutPreferences
  \/ PutProfile
  \/ PutStatus
  \/ PutRole
  \/ DeleteUser

SpecAcct == InitAcct /\ [][NextAcct]_vars

\* ------------------------------------------------------- response bodies

\* userSchema.methods.getPublicProfile: the document as an object, without
\* its password.
getPublicProfile(doc) == [p \in DOMAIN doc \ {"password"} |-> doc[p]]

\* The body a route's res.json sends with its answer: the error and the
\* message of an error answer (the message a sentence for the reader, whose
\* wording is left out); else the token and the user or admin object.
json(route, in, out) ==
  IF out.status >= 400 THEN [error |-> out.error, message |-> "text"]
  ELSE IF route = "create-admin"
  THEN IF out.status = 201
       THEN [admin |-> [email |-> adminData.email,
                        password |-> adminData.password,
                        role |-> adminData.role]]
       ELSE [admin |-> [email |-> adminData.email,
                        role |-> findOne(adminData.email).role]]
  ELSE IF route \in {"register", "login"}
  THEN [token |-> out.token,
        user |-> getPublicProfile(WithPassword(out.user))]
  ELSE IF route = "me" THEN [user |-> getPublicProfile(out.user)]
  ELSE [message |-> "ok"]

\* ------------------------------------- uploads by MIME type and file name

\* The longest file name of the sampled uploads.
MaxName == 5

\* The characters of the sampled names: those of ".ogg" and ".gif", and a
\* capital.
NameChars == {".", "o", "g", "G", "i", "f"}

Names == UNION {[1..n -> NameChars] : n \in 0..MaxName}

Mimetypes == {"audio/ogg", "image/gif", "text/plain"}

Fieldnames == {"audio", "coverImage", "avatar"}

\* One upload by the admin, with a file of 1 MiB in the field: the audio of a
\* POST /songs, the cover image of a POST /songs with an MP3, or the avatar of
\* a POST /users/2/avatar.
InitFile ==
  /\ users = [id \in UserIds |->
                IF id = 1 THEN NewUser("ann@x.io", "pw1", "contributor")
                ELSE IF id = 2 THEN NewUser(AdminEmail, "pw1", "admin")
                ELSE Absent]
  /\ now = 0
  /\ call \in [fieldname : Fieldnames,
               file : {File(m, n, 1) : m \in Mimetypes, n \in Names}]
  /\ InitRest

PostSongsFile ==
  /\ call # NoCall
  /\ call.fieldname \in {"audio", "coverImage"}
  /\ call' = NoCall
  /\ ups' = ups + 1
  /\ UNCHANGED <<now, regs>>
  /\ LET h == Bearer(generateToken(2))
         in == [hdr |-> h, k |-> ups + 1,
                form |-> IF call.fieldname = "audio"
                         THEN [audio |-> call.file, coverImage |-> NoPart]
                         ELSE [audio |-> Part("audio", 1),
                               coverImage |-> call.file],
                valid |-> TRUE, saveFails |-> FALSE, fault |-> FALSE]
     IN  \E left \in {postSongs(in, Ctx(h, Undefined, NoParam, FALSE))} :
           /\ last' = Answered("songs", in, left.out)
           /\ disk' = left.disk
           /\ songs' = left.songs
           /\ users' = left.users

PostAvatarFile ==
  /\ call # NoCall
  /\ call.fieldname = "avatar"
  /\ call' = NoCall
  /\ ups' = ups + 1
  /\ UNCHANGED <<now, regs>>
  /\ LET h == Bearer(generateToken(2))
         in == [hdr |-> h, k |-> ups + 1, target |-> 2,
                form |-> [avatar |-> call.file],
                saveFails |-> FALSE, fault |-> FALSE]
     IN  \E left \in {postAvatar(in, Ctx(h, Undefined, Str(2), FALSE))} :
           /\ last' = Answered("avatar", in, left.out)
           /\ disk' = left.disk
           /\ songs' = left.songs
           /\ users' = left.users

NextFile ==
  \/ PostSongsFile
  \/ PostAvatarFile

SpecFile == InitFile /\ [][NextFile]_vars

\* ------------------------------------------------- the application (server.js)

\* max of the limiter: the requests of one address it lets through in a
\* window.
max == 100

\* The process: whether NODE_ENV is 'production', and the hits the limiter
\* has counted for the client's address in the current window.
InitApp ==
  /\ users = [id \in UserIds |->
                IF id = 1 THEN NewUser("ann@x.io", "pw1", "contributor")
                ELSE IF id = 2 THEN NewUser(AdminEmail, "pw1", "admin")
                ELSE Absent]
  /\ now = 0
  /\ call \in [fn : {"app"}, production : BOOLEAN, hits : {0}]
  /\ InitRest

\* The paths of the sampled requests: GET /health, GET /api/auth/me,
\* POST /api/auth/login, and one no route matches.
Paths == {"/health", "/api/auth/me", "/api/auth/login", "/nowhere"}

\* The body of a request: none, JSON, or text declared as JSON that does not
\* parse.
Bodies == {"none", "json", "malformed"}

\* app.use((err, req, res, next) => ...): the error handling middleware.
errorHandler(err) ==
  [status |-> IF err.status # 0 THEN err.status ELSE 500,
   type |-> "json",
   body |-> IF call.production THEN [error |-> "Something went wrong!"]
            ELSE [error |-> err.message, stack |-> err.stack]]

\* app.use((req, res) => ...): the 404 handler.
notFound ==
  [status |-> 404, type |-> "json",
   body |-> [error |-> "Route not found", message |-> "text"]]

\* A route's answer as sent.
Send(route, req, out) ==
  [status |-> out.status, type |-> "json", body |-> json(route, req, out)]

\* The middleware of the application in the order of its app.use calls, on a
\* request that is the hits + 1st of its address in the window: limiter
\* (a string message is sent as text with 429), express.json (a body that
\* does not parse is an error of status 400 passed to next), the routers, the
\* 404 handler.
app(req) ==
  IF call.hits + 1 > max
  THEN [status |-> 429, type |-> "text",
        body |-> [text |-> "Too many requests from this IP"]]
  ELSE IF req.body = "malformed"
  THEN errorHandler([status |-> 400, message |-> "Unexpected token",
                     stack |-> "SyntaxError"])
  ELSE IF req.path = "/health"
  THEN [status |-> 200, type |-> "json",
        body |-> [status |-> "OK", message |-> "text"]]
  ELSE IF req.path = "/api/auth/me"
  THEN Send("me", req,
               Chain("me", Ctx(req.hdr, Undefined, NoParam, req.fault)))
  ELSE IF req.path = "/api/auth/login"
  THEN Send("login", req,
               login(req, Ctx(req.hdr, Undefined, NoParam, req.fault)))
  ELSE notFound

Request ==
  /\ call # NoCall
  /\ UNCHANGED <<now, regs, ups, disk, songs>>
  /\ \E path \in Paths, body \in Bodies,
        h \in {NoHeader, Bearer(generateToken(2))},
        password \in Passwords, f \in BOOLEAN :
       LET req == [path |-> path, body |-> body, hdr |-> h,
                   email |-> AdminEmail, password |-> password,
                   valid |-> body = "json", fault |-> f]
       IN  \E out \in {app(req)} :
             /\ last' = Answered("app", req, out)
             /\ call' = [call EXCEPT !.hits = IF call.hits + 1 > max
                                              THEN call.hits
                                              ELSE call.hits + 1]
             /\ users' = IF path = "/api/auth/login" /\ out.status = 200
                         THEN updateLastLogin(WithPassword(findOne(AdminEmail)))
                         ELSE users

\* windowMs has passed since the first hit of the window.
WindowEnds ==
  /\ call # NoCall
  /\ call.hits > 0
  /\ call' = [call EXCEPT !.hits = 0]
  /\ UNCHANGED <<users, now, last, regs, ups, disk, songs>>

NextApp ==
  \/ Request
  \/ WindowEnds

SpecApp == InitApp /\ [][NextApp]_vars

\* -------------------------------- user management, request by request

\* isActive as a JSON boolean.
JsonBools == {b \in BodyBools : b.k = "bool"}

\* PUT /users/:id/status up to the handler's await of User.findById:
\* authenticate and authorize('admin').
PutStatusAuthenticate(i) ==
  /\ regs[i] = Idle
  /\ UNCHANGED <<users, now, call, ups, disk, songs>>
  /\ \E h \in UpHeaders, target \in UserIds, isActive \in JsonBools :
       LET in == [hdr |-> h, target |-> target, isActive |-> isActive,
                  fault |-> FALSE]
           a == authenticate(Ctx(h, Undefined, Str(target), FALSE))
           b == IF a.next = 0 THEN a ELSE authorize({"admin"}, a)
       IN  IF a.next = 0 \/ b.next = 1
           THEN /\ last' = Answered("status", in, b)
                /\ regs' = regs
           ELSE /\ last' = last
                /\ regs' = [regs EXCEPT ![i] = At("handler", "status", in, b)]

\* The handler of PUT /users/:id/status: the lookup, the guard, the save and
\* the answer.
PutStatusHandler(i) ==
  /\ regs[i].pc = "handler"
  /\ regs[i].route = "status"
  /\ UNCHANGED <<now, call, ups, disk, songs>>
  /\ \E out \in {statusHandler(regs[i].in, regs[i].r)} :
       /\ last' = Answered("status", regs[i].in, out)
       /\ users' = IF out.status = 200
                   THEN saveUser(findById(regs[i].in.target),
                                 [isActive |-> castBoolean(regs[i].in.isActive)])
                   ELSE users
  /\ regs' = [regs EXCEPT ![i] = Idle]

\* PUT /users/:id/role up to the handler.
PutRoleAuthenticate(i) ==
  /\ regs[i] = Idle
  /\ UNCHANGED <<users, now, call, ups, disk, songs>>
  /\ \E h \in UpHeaders, target \in UserIds, role \in Roles :
       LET in == [hdr |-> h, target |-> target, role |-> role]
           a == authenticate(Ctx(h, Undefined, Str(target), FALSE))
           b == IF a.next = 0 THEN a ELSE authorize({"admin"}, a)
       IN  IF a.next = 0 \/ b.next = 1
           THEN /\ last' = Answered("role", in, b)
                /\ regs' = regs
           ELSE /\ last' = last
                /\ regs' = [regs EXCEPT ![i] = At("handler", "role", in, b)]

\* The handler of PUT /users/:id/role.
PutRoleHandler(i) ==
  /\ regs[i].pc = "handler"
  /\ regs[i].route = "role"
  /\ UNCHANGED <<now, call, ups, disk, songs>>
  /\ \E out \in {roleHandler(regs[i].in, regs[i].r)} :
       /\ last' = Answered("role", regs[i].in, out)
       /\ users' = IF out.status = 200
                   THEN saveUser(findById(regs[i].in.target),
                                 [role |-> regs[i].in.role])
                   ELSE users
  /\ regs' = [regs EXCEPT ![i] = Idle]

NextAdm ==
  \E i \in 1..MaxRegReq :
    \/ PutStatusAuthenticate(i)
    \/ PutStatusHandler(i)
    \/ PutRoleAuthenticate(i)
    \/ PutRoleHandler(i)

SpecAdm == InitAcct /\ [][NextAdm]_vars

\* ------------------------------------------- role changes and uploads

\* POST /songs with an MP3 and no cover image, fields the validators accept
\* and a store that saves.
PostSongsAudio ==
  /\ ups < MaxUpReq
  /\ ups' = ups + 1
  /\ UNCHANGED <<now, call, regs>>
  /\ \E h \in UpHeaders :
       LET in == [hdr |-> h, k |-> ups + 1,
                  form |-> [audio |-> Part("audio", 1), coverImage |-> NoPart],
                  valid |-> TRUE, saveFails |-> FALSE, fault |-> FALSE]
       IN  \E left \in {postSongs(in, Ctx(h, Undefined, NoParam, FALSE))} :
             /\ last' = Answered("songs", in, left.out)
             /\ disk' = left.disk
             /\ songs' = left.songs
             /\ users' = left.users

NextRole ==
  \/ PutRole
  \/ PostSongsAudio

SpecRole == InitAcct /\ [][NextRole]_vars

\* ------------------------------------------------------------------ claims

\* What the claims call a request whose token resolves to an active user: the
\* header is "Bearer " followed by one token, the token is signed with the
\* server's key and the clock has not reached its expiry, and the store holds
\* its subject with the active flag set.
Resolves(h) ==
  /\ h.present
  /\ Len(h.text) = 2
  /\ h.text[1] = Word("Bearer ")
  /\ h.text[2].lex = "jwt"
  /\ h.text[2].sig
  /\ now < h.text[2].exp
  /\ users[h.text[2].sub].exists
  /\ users[h.text[2].sub].isActive

\* C1: in required mode authenticate attaches the identity and calls next()
\* if and only if the Authorization header starts with "Bearer ", the token
\* verifies and its subject exists and is active; in every other case that
\* meets no internal error it answers 401 and never calls next(). (A request
\* whose store query fails is answered 401 or 500 and is not let through.)
C1_RequiredMode ==
  call.fn = "authenticate" =>
    /\ ~call.in.fault =>
         IF Resolves(call.in.hdr)
         THEN /\ call.out.next = 1
              /\ call.out.status = 0
              /\ call.out.user.k = "doc"
              /\ call.out.user.id = call.in.hdr.text[2].sub
         ELSE /\ call.out.status = 401
              /\ call.out.next = 0
              /\ call.out.user = Undefined
    /\ call.in.fault =>
         /\ call.out.status \in {401, 500}
         /\ call.out.next = 0
         /\ call.out.user = Undefined

C1_Witness ==
  /\ call.fn = "authenticate"
  /\ Resolves(call.in.hdr)
  /\ call.out.next = 1
  /\ call.out.user.k = "doc"

\* C3: optionalAuth never blocks. For every request, a store failure
\* included, it sends no response and calls next() exactly once; req.user is
\* the user exactly when the token verifies and the lookup returns its
\* subject with the active flag set, and null in every other case.
C3_OptionalMode ==
  call.fn = "optionalAuth" =>
    /\ call.out.status = 0
    /\ call.out.next = 1
    /\ IF Resolves(call.in.hdr) /\ ~call.in.fault
       THEN /\ call.out.user.k = "doc"
            /\ call.out.user.id = call.in.hdr.text[2].sub
            /\ call.out.user.isActive
       ELSE call.out.user = Null

C3_Witness ==
  /\ call.fn = "optionalAuth"
  /\ call.in.hdr.present
  /\ Len(call.in.hdr.text) = 2
  /\ call.in.hdr.text[2].sig
  /\ now < call.in.hdr.text[2].exp
  /\ users[call.in.hdr.text[2].sub].exists
  /\ ~users[call.in.hdr.text[2].sub].isActive
  /\ call.out.user = Null
  /\ call.out.next = 1

\* C4: authorize(roles) calls next() if and only if an identity is attached
\* and its role is one of roles; with no identity attached it answers 401,
\* whatever the roles, and with an identity of another role it answers 403.
C4_RoleAuthorization ==
  call.fn = "authorize" =>
    LET u == call.in.user IN
    /\ call.out.next = 1 <=> (u.k = "doc" /\ u.role \in call.roles)
    /\ u.k # "doc" => call.out.status = 401 /\ call.out.next = 0
    /\ (u.k = "doc" /\ u.role \notin call.roles) =>
         call.out.status = 403 /\ call.out.next = 0
    /\ call.out.next = 1 => call.out.status = 0
    /\ call.out.user = u

C4_Witness ==
  /\ call.fn = "authorize"
  /\ call.in.user.k = "doc"
  /\ call.in.user.role = "contributor"
  /\ call.roles = {"admin"}
  /\ call.out.status = 403

\* C5 as claimed: an admin identity always passes; a non-admin identity
\* passes if and only if its own id equals the resource identifier of the
\* route path, and otherwise the request fails with 403.
C5_Claimed ==
  (call.fn = "requireOwnershipOrAdmin" /\ call.in.user.k = "doc") =>
    LET u == call.in.user
        own == call.in.id.k = "str" /\ call.in.id.v = u.id
    IN  IF u.role = "admin" \/ own
        THEN call.out.next = 1 /\ call.out.status = 0
        ELSE call.out.next = 0 /\ call.out.status = 403

\* C5 as amended: an admin identity always passes; a non-admin identity
\* passes if and only if its own id equals the resource identifier of the
\* route path; otherwise the request fails, with 400 when the route path
\* carries no resource identifier and with 403 when it carries another one.
C5_OwnershipOrAdmin ==
  (call.fn = "requireOwnershipOrAdmin" /\ call.in.user.k = "doc") =>
    LET u == call.in.user
        own == call.in.id.k = "str" /\ call.in.id.v = u.id
    IN  IF u.role = "admin" \/ own
        THEN call.out.next = 1 /\ call.out.status = 0
        ELSE /\ call.out.next = 0
             /\ call.out.status = IF call.in.id.k = "undefined" THEN 400 ELSE 403

C5_Witness ==
  /\ call.fn = "requireOwnershipOrAdmin"
  /\ call.in.user.k = "doc"
  /\ call.in.user.role # "admin"
  /\ call.in.id.k = "str"
  /\ call.in.id.v # call.in.user.id
  /\ call.out.status = 403

\* The subject of the token a session header carries.
Subject(h) == h.text[2].sub

\* The route's chain starts with authenticate in required mode.
Required(route) == route \in {"me", "refresh", "logout", "status"}

\* This step answered a request.
Answers == last'.n # last.n

\* C2: while an identity's active flag is off, a login with its address and a
\* request on a route behind required-mode authentication with a token of its
\* own are answered 401 (500 if the store query rejects), and neither is let
\* through: no token is issued, the handler behind authenticate does not run
\* and the store is left as it was.
C2_DeactivatedCannotAuthenticate ==
  [][\A u \in UserIds :
       (Answers /\ users[u].exists /\ ~users[u].isActive) =>
         /\ (/\ last'.route = "login"
             /\ last'.in.valid
             /\ Lower(last'.in.email) = users[u].email)
              => /\ last'.out.status = IF last'.in.fault THEN 500 ELSE 401
                 /\ ~last'.in.fault => last'.out.error = "Account deactivated"
                 /\ last'.out.token = NoToken
         /\ (/\ Required(last'.route)
             /\ last'.in.hdr.present
             /\ Subject(last'.in.hdr) = u)
              => /\ last'.out.status \in {401, 500}
                 /\ last'.out.status = 500 =>
                      last'.in.fault /\ now < last'.in.hdr.text[2].exp
                 /\ last'.out.next = 0
                 /\ last'.out.token = NoToken
                 /\ users' = users]_vars

\* A deactivated identity was refused at login with its right password.
C2_Witness ==
  /\ last.route = "login"
  /\ last.in.valid /\ ~last.in.fault
  /\ last.in.email = "ann@x.io" /\ last.in.password = "pw1"
  /\ ~users[1].isActive
  /\ last.out.status = 401
  /\ last.out.error = "Account deactivated"

\* C6: refresh and logout revoke nothing. The request answered next after a
\* successful refresh or logout, on a route behind authenticate, with the
\* token that request presented (or the token the refresh returned), is
\* answered 200 for the same identity as long as the clock has not reached
\* the token's expiry; and when a refresh
\* succeeds, the token presented and the token returned both verify for the
\* same identity, and the store is as it was.
C6_NoRevocation ==
  [][/\ (/\ Answers
         /\ last'.after # "none"
         /\ last'.route \in {"me", "refresh", "logout"}
         /\ ~last'.in.fault
         /\ now < last'.in.hdr.text[2].exp)
          => /\ last'.out.status = 200
             /\ last'.out.user.id = last.out.user.id
     /\ (/\ Answers
         /\ last'.route \in {"refresh", "logout"}
         /\ last'.out.status = 200)
          => /\ users' = users
             /\ jwtVerify(last'.in.hdr.text[2]) =
                  [ok |-> TRUE, userId |-> last'.out.user.id]
             /\ last'.route = "refresh" =>
                  /\ last'.out.token # last'.in.hdr.text[2]
                     \/ last'.in.hdr.text[2].exp = now + TokenLifetime
                  /\ jwtVerify(last'.out.token) =
                       [ok |-> TRUE, userId |-> last'.out.user.id]]_vars

\* After a logout, and later on the clock, the token the logout presented was
\* accepted again.
C6_Witness ==
  /\ last.route = "me"
  /\ last.after = "logout"
  /\ last.out.status = 200
  /\ last.out.user.id = 1
  /\ now > 0

\* The address of a finished registration was, when it finished, the address
\* of a stored identity.
UsedEmail == DuplicateKey(normalizeEmail(last'.in.email))

\* C7: a registration with an address that is already in use, whether it
\* follows the first or runs between the first's lookup and its save, is
\* answered 400 and creates no identity (the store's own failures aside).
C7_Claimed ==
  [][(/\ Answers
      /\ last'.route = "register"
      /\ last'.in.valid /\ ~last'.in.fault
      /\ UsedEmail)
       => last'.out.status = 400 /\ users' = users]_vars

\* C8: no two stored identities have the same address, compared without
\* regard to case; every stored address is in lower case.
C8_EmailUnique ==
  \A a, b \in UserIds :
    /\ users[a].exists => users[a].email = Lower(users[a].email)
    /\ (users[a].exists /\ users[b].exists /\ a # b)
         => Lower(users[a].email) # Lower(users[b].email)

\* Two registrations with one address passed the lookup together and the
\* index turned the second away at its save.
C8_Witness ==
  /\ last.route = "register"
  /\ ~last.in.fault
  /\ last.out.status = 500
  /\ \E id \in UserIds :
       users[id].exists /\ users[id].email = Lower(last.in.email)

\* The files on disk that the last request's upload wrote.
Remaining == {f \in disk : f.name[1] = last.in.k}

\* C9: a POST /songs that the chain lets through to the upload and that has
\* no file in the audio field is answered 400, creates no track and leaves
\* none of its files on disk.
C9_Claimed ==
  (/\ last.route = "songs"
   /\ last.out.next >= 2
   /\ last.in.form["audio"] = NoPart)
    => /\ last.out.status = 400
       /\ \A s \in songs : s.id # last.in.k
       /\ Remaining = {}

\* C10: a POST /songs or POST /users/:id/avatar whose upload step stored
\* files and went on to the rest of the chain, and which did not end in
\* success, has left none of its files on disk.
C10_Claimed ==
  (/\ last.route \in {"songs", "avatar"}
   /\ last.out.next >= (IF last.route = "songs" THEN 4 ELSE 3)
   /\ Sent(last.in.form) # {}
   /\ last.out.status \notin {200, 201})
    => Remaining = {}

\* C11: the access URL attached to an accepted avatar or cover image names
\* the directory the file was written to: the URL of every identity's avatar
\* and of every track's cover image, as the server maps it to a path, is a
\* file on disk in the image directory.
C11_Claimed ==
  /\ \A id \in UserIds :
       (users[id].exists /\ users[id].avatar # NoFile)
         => /\ static(users[id].avatar) \in disk
            /\ static(users[id].avatar).dir = "uploads/images"
  /\ \A s \in songs :
       s.coverImage # NoFile
         => /\ static(s.coverImage) \in disk
            /\ static(s.coverImage).dir = "uploads/images"

\* The size of the file a form carries in a field is over a limit.
Over(form, fieldname, limit) ==
  form[fieldname] # NoPart /\ form[fieldname].size > limit

\* C12: a POST /songs that reaches the upload with an audio file over
\* 100 MiB or a coverImage file over 5 MiB is answered 400.
C12_Claimed ==
  (/\ last.route = "songs"
   /\ last.out.next >= 2
   /\ \/ Over(last.in.form, "audio", songFileSize)
      \/ Over(last.in.form, "coverImage", profileFileSize))
    => last.out.status = 400

\* C13: the track a successful POST /songs creates has, for an admin
\* uploader, status approved, the uploader as moderator and the time of the
\* request as moderation timestamp; for any other uploader, status pending
\* and neither moderator nor moderation timestamp.
C13_CreationStatus ==
  [][(Answers /\ last'.route = "songs" /\ last'.out.status = 201) =>
       \E s \in songs' \ songs :
         /\ songs' = songs \cup {s}
         /\ s.id = last'.in.k
         /\ s.uploadedBy = last'.out.user.id
         /\ IF users[s.uploadedBy].role = "admin"
            THEN /\ s.status = "approved"
                 /\ s.moderatedBy = s.uploadedBy
                 /\ s.moderatedAt = now
            ELSE /\ s.status = "pending"
                 /\ s.moderatedBy = Unset
                 /\ s.moderatedAt = Unset]_vars

\* An admin and a contributor have each uploaded a track, at a time after the
\* start of the clock.
C13_Witness ==
  /\ \E s \in songs : s.status = "approved" /\ s.moderatedAt > 0
  /\ \E s \in songs : s.status = "pending" /\ users[s.uploadedBy].role = "contributor"

\* C18: after the calls of addRating on a track with no prior ratings,
\* ratingCount is the number of accepted calls and averageRating times
\* ratingCount is the sum of their ratings; a call with a rating below 1 or
\* above 5 is refused and leaves the track as it was.
C18_Claimed ==
  call.fn = "addRating" =>
    \A s \in songs :
      /\ s.ratingCount = call.accepted.count
      /\ Mul(s.averageRating, s.ratingCount) = FromNat(call.accepted.sum)
      /\ OutOfRange(call.in.rating) => ~call.out.ok /\ s = call.in.song

\* This step called approve or reject.
Moderates == Answers /\ last'.route \in {"approve", "reject"}

\* C14: whatever the status of a track, approve(m, n) leaves it approved and
\* reject(m, n) rejected, with moderator m, notes n and the time of the call
\* as moderation timestamp, in place of the earlier ones; nothing else of
\* the track and no other track changes.
C14_UnguardedOverwrite ==
  [][Moderates =>
       songs' = {IF s.id = last'.in.song.id
                 THEN [s EXCEPT
                         !.status = IF last'.route = "approve" THEN "approved"
                                    ELSE "rejected",
                         !.moderatedBy = last'.in.moderatorId,
                         !.moderatedAt = now,
                         !.moderationNotes = last'.in.notes]
                 ELSE s : s \in songs}]_vars

\* A track that was approved has been approved again, later and by another
\* moderator with other notes.
C14_Witness ==
  /\ last.route = "approve"
  /\ last.in.song.status = "approved"
  /\ last.in.song.moderatedBy # last.in.moderatorId
  /\ last.in.song.moderationNotes # last.in.notes
  /\ last.in.song.moderatedAt < now
  /\ \E s \in songs :
       /\ s.id = last.in.song.id
       /\ s.status = "approved"
       /\ s.moderatedBy = last.in.moderatorId
       /\ s.moderatedAt = now

\* C15: a play, a rating, the soft delete of a track and the deletion of an
\* account keep every stored track and leave its status, its moderator and
\* its moderation timestamp as they were.
C15_ModerationFrame ==
  [][/\ {t.id : t \in songs'} = {s.id : s \in songs}
     /\ \A s \in songs : \A t \in songs' :
          t.id = s.id => /\ t.status = s.status
                         /\ t.moderatedBy = s.moderatedBy
                         /\ t.moderatedAt = s.moderatedAt]_vars

\* An account was deleted; its track, approved by the admin and rated since,
\* is inactive and still approved by the admin, and the other track was
\* played and is approved as it was created.
C15_Witness ==
  /\ last.route = "deleteUser"
  /\ last.out.status = 200
  /\ \E s \in songs :
       /\ s.uploadedBy = last.in.target
       /\ ~s.isActive
       /\ s.ratingCount = 1
       /\ s.status = "approved" /\ s.moderatedBy = 2 /\ s.moderatedAt = 0
  /\ \E s \in songs :
       /\ s.uploadedBy # last.in.target
       /\ s.playCount = 1
       /\ s.status = "approved" /\ s.moderatedBy = s.uploadedBy

\* C16: DELETE /songs/:id on a stored track answers an authenticated
\* requester who neither uploaded it nor is admin with 403, and the uploader
\* or an admin with success; on an id no track has it answers 404. A success
\* sets isActive of that track to false and changes nothing else; every other
\* answer leaves the tracks as they were, and no track is ever removed.
C16_SoftDelete ==
  [][(Answers /\ last'.route = "deleteSong") =>
       LET id == last'.in.id
           r == last'.out
       IN
       /\ r.status \in {200, 401, 403, 404}
       /\ r.status = 401 <=> r.next = 0
       /\ r.status = 404 <=> (r.next = 1 /\ id \notin SongIds)
       /\ r.status = 403 <=>
            /\ r.next = 1
            /\ \E s \in songs : /\ s.id = id
                                /\ s.uploadedBy # r.user.id
                                /\ r.user.role # "admin"
       /\ songs' = IF r.status = 200
                   THEN {IF s.id = id THEN [s EXCEPT !.isActive = FALSE]
                         ELSE s : s \in songs}
                   ELSE songs]_vars

\* A contributor has deleted their own track: it is stored, inactive; and
\* the admin's track is as it was.
C16_Witness ==
  /\ last.route = "deleteSong"
  /\ last.out.status = 200
  /\ last.out.user.role = "contributor"
  /\ \E s \in songs : /\ s.id = last.in.id
                      /\ s.uploadedBy = last.out.user.id
                      /\ ~s.isActive
  /\ SecondSong \in songs

\* The routes whose chain asks for no credentials.
Public ==
  {"list", "featured", "popular", "recent", "song", "songsOfUser",
   "userSongs", "play"}

\* C20: every track an endpoint without required authentication returns, and
\* the track a play acts on, has status approved and is active.
C20_Claimed ==
  last.route \in Public =>
    \A s \in last.out.found : s.status = "approved" /\ s.isActive

\* The requests on the route that were answered 200 for the track.
Succeeded(route, id) ==
  {i \in 1..MaxRegReq : /\ regs[i].pc = "done"
                        /\ regs[i].route = route
                        /\ regs[i].in.id = id
                        /\ regs[i].out.status = 200}

\* C17: once the requests on a track are answered, its playCount is higher
\* by the number of its successful plays and its ratingCount by the number of
\* its successful ratings (both start at 0).
C17_Claimed ==
  (\A i \in 1..MaxRegReq : regs[i].pc # "save") =>
    \A s \in songs :
      /\ s.playCount = Cardinality(Succeeded("play", s.id))
      /\ s.ratingCount = Cardinality(Succeeded("rate", s.id))

\* C19: when DELETE /users/:id answers with success, the target is inactive
\* and every stored track the target uploaded is inactive.
C19_Claimed ==
  [][(Answers /\ last'.route = "deleteUser" /\ last'.out.status = 200) =>
       /\ ~users'[last'.in.target].isActive
       /\ \A s \in songs' :
            s.uploadedBy = last'.in.target => ~s.isActive]_vars

\* POST /login with the address of the identity and the password.
LoginOf(id, password) ==
  login([hdr |-> NoHeader, email |-> users[id].email, password |-> password,
         valid |-> TRUE, fault |-> FALSE],
        Ctx(NoHeader, Undefined, NoParam, FALSE))

\* C21: whatever logins, preference, profile, avatar, status and role updates
\* and account deletions have run, every identity's stored password is the
\* hash of the password it was created with, and a login of an active
\* identity with that password is answered 200.
C21_HashedOnce ==
  \A id \in UserIds :
    users[id].exists =>
      /\ users[id].password = Hash("pw1")
      /\ users[id].isActive => LoginOf(id, "pw1").status = 200
      /\ LoginOf(id, "pw2").status = 401

\* The setup's admin, whose role another admin has since changed, has logged
\* in with the password it was created with.
C21_Witness ==
  /\ last.route = "login"
  /\ last.out.status = 200
  /\ last.in.password = "pw1"
  /\ last.out.user.id = 2
  /\ users[2].role = "contributor"

\* C22: the body of no answer carries a password, in its user object or its
\* admin object.
C22_Claimed ==
  last.route # "none" =>
    \A part \in {"user", "admin"} \cap DOMAIN json(last.route, last.in, last.out) :
      "password" \notin DOMAIN json(last.route, last.in, last.out)[part]

\* The header is "Bearer " followed by one token.
BearsToken(h) ==
  /\ h.present
  /\ Len(h.text) = 2
  /\ h.text[1] = Word("Bearer ")
  /\ h.text[2].lex = "jwt"

\* The time since the token was issued, for a token of the configured
\* lifetime.
Age(t) == now - (t.exp - TokenLifetime)

\* C23: authenticate lets a request with a token through only if the token
\* is correctly signed and younger than the lifetime; a correctly signed
\* token as old as the lifetime or older fails verification as expired and
\* is answered 401 "Token expired", a wrongly signed one 401 "Invalid token".
C23_TokenExpiry ==
  (call.fn = "authenticate" /\ BearsToken(call.in.hdr)) =>
    LET t == call.in.hdr.text[2] IN
    /\ jwtVerify(t).ok <=> (t.sig /\ Age(t) < TokenLifetime)
    /\ call.out.next = 1 => (t.sig /\ Age(t) < TokenLifetime)
    /\ (t.sig /\ Age(t) >= TokenLifetime) =>
         /\ jwtVerify(t).name = "TokenExpiredError"
         /\ call.out.status = 401
         /\ call.out.error = "Token expired"
         /\ call.out.next = 0
    /\ ~t.sig =>
         /\ call.out.status = 401
         /\ call.out.error = "Invalid token"
         /\ call.out.next = 0

\* A correctly signed token of an active identity, older than the lifetime,
\* was answered 401 "Token expired".
C23_Witness ==
  /\ call.fn = "authenticate"
  /\ BearsToken(call.in.hdr)
  /\ call.in.hdr.text[2].sig
  /\ Age(call.in.hdr.text[2]) > TokenLifetime
  /\ users[call.in.hdr.text[2].sub].exists
  /\ users[call.in.hdr.text[2].sub].isActive
  /\ call.out.status = 401
  /\ call.out.error = "Token expired"

\* C24: GET /auth/me with the token a successful login returned, answered
\* next after that login and before the clock reaches the token's expiry, is
\* answered 200 with the identity that logged in, which is the one stored
\* under the address of the login.
C24_LoginThenMe ==
  [][(/\ Answers
      /\ last'.route = "me"
      /\ last'.after = "login"
      /\ ~last'.in.fault
      /\ now < last'.in.hdr.text[2].exp)
       => /\ last'.out.status = 200
          /\ last'.out.user.id = last.out.user.id
          /\ users[last'.out.user.id].email = Lower(last.in.email)
          /\ users[last'.out.user.id].password = Hash(last.in.password)]_vars

\* The token of a login was presented to GET /auth/me later on the clock and
\* answered 200.
C24_Witness ==
  /\ last.route = "me"
  /\ last.after = "login"
  /\ last.out.status = 200
  /\ last.out.user.id = 2
  /\ now > last.in.hdr.text[2].exp - TokenLifetime

\* The file of an upload whose form carries one file besides, at most, the
\* MP3 of a cover upload: the field and the file.
Uploaded ==
  IF last.route = "avatar" THEN [fieldname |-> "avatar",
                                 file |-> last.in.form["avatar"]]
  ELSE IF last.in.form["coverImage"] # NoPart
  THEN [fieldname |-> "coverImage", file |-> last.in.form["coverImage"]]
  ELSE [fieldname |-> "audio", file |-> last.in.form["audio"]]

\* Whether the MIME type, and whether the extension, of a file is in the
\* allow-list of the kind of a field.
MimeListed(fieldname, file) ==
  file.mimetype \in (IF fieldname = "audio" THEN audioMimes ELSE imageMimes)

ExtensionListed(fieldname, file) ==
  toLowerCase(extname(file.originalname)) \in
    (IF fieldname = "audio" THEN audioExtensions ELSE imageExtensions)

\* C25: an upload by an admin of a file within the size limit is refused
\* with 400 exactly when neither the declared MIME type nor the extension of
\* the file is in the allow-list of the field's kind (audio for audio, image
\* for coverImage and avatar); when at least one is, the upload is stored and
\* answered 201 (song) or 200 (avatar).
C25_EitherMatches ==
  last.route \in {"songs", "avatar"} =>
    LET u == Uploaded
        listed == MimeListed(u.fieldname, u.file)
                    \/ ExtensionListed(u.fieldname, u.file)
    IN  /\ last.out.status = 400 <=> ~listed
        /\ listed => /\ last.out.status =
                          (IF last.route = "songs" THEN 201 ELSE 200)
                     /\ Stored(last.in.k, u.fieldname) \in disk
        /\ ~listed => /\ last.out.error \in {"File upload failed",
                                              "Image upload failed"}
                      /\ disk = {}

\* An audio upload whose MIME type is an image's and whose name ends in .oGG
\* was stored.
C25_Witness ==
  /\ last.route = "songs"
  /\ last.out.status = 201
  /\ Uploaded.fieldname = "audio"
  /\ ~MimeListed("audio", Uploaded.file)
  /\ Uploaded.file.mimetype = "image/gif"
  /\ Uploaded.file.originalname = <<"o", ".", "o", "G", "G">>

\* C26 (as claimed): every answer of the application with a status of 400 or
\* above is a JSON body that has an error field and a message field.
C26_Claimed ==
  (last.route = "app" /\ last.out.status >= 400) =>
    /\ last.out.type = "json"
    /\ {"error", "message"} \subseteq DOMAIN last.out.body

\* The error answers of the routes and of the 404 handler are JSON bodies
\* with an error and a message.
C26_RoutesAndNotFound ==
  (/\ last.route = "app"
   /\ last.out.status >= 400
   /\ last.out.status # 429
   /\ last.in.body # "malformed") =>
    /\ last.out.type = "json"
    /\ {"error", "message"} \subseteq DOMAIN last.out.body

\* An identity that is stored, active and an admin.
ActiveAdmin(id) ==
  /\ users[id].exists
  /\ users[id].isActive
  /\ users[id].role = "admin"

\* C27 (as claimed): an active admin existing at the start, at least one
\* active admin exists after any interleaving of PUT /users/:id/status,
\* PUT /users/:id/role and DELETE /users/:id.
C27_Claimed == \E id \in UserIds : ActiveAdmin(id)

\* The request answered last is one of an admin on the admin's own account,
\* past authenticate and authorize: a deactivation (isActive a value the
\* schema casts to false), a role change, or a deletion.
OnOwnAccount ==
  /\ last.route \in {"status", "role", "deleteUser"}
  /\ BearsToken(last.in.hdr)
  /\ last.in.hdr.text[2].sub = last.in.target
  /\ last.out.status \notin {401, 403}
  /\ users[last.in.target].role = "admin"
  /\ last.route = "status" => ~castBoolean(last.in.isActive)

\* C28 (as claimed): an admin's deactivation of, role change of, or deletion
\* of the admin's own account is answered 400 and leaves the account active
\* and an admin.
C28_Claimed ==
  OnOwnAccount => /\ last.out.status = 400
                  /\ ActiveAdmin(last.in.target)

\* The role change and the deletion of an admin's own account, and the
\* deactivation with the JSON boolean false, are answered 400 and leave the
\* account as it was.
C28_RoleDeleteAndJsonFalse ==
  (OnOwnAccount /\ (last.route = "status" => last.in.isActive.k = "bool"))
    => /\ last.out.status = 400
       /\ ActiveAdmin(last.in.target)

\* C29: a registration, which bears no credentials, answered 201 has stored
\* an active identity whose role is the one of the body, 'senior' for a body
\* without one; when that role is admin, a request with the token of the
\* answer passes authenticate and authorize('admin').
C29_RoleOfBody ==
  (last.route = "register" /\ last.out.status = 201) =>
    LET id == last.out.user.id
        role == IF last.in.role = NoRole THEN "senior" ELSE last.in.role
        r == Ctx(Bearer(last.out.token), Undefined, NoParam, FALSE)
    IN  /\ last.in.hdr = NoHeader
        /\ users[id].exists
        /\ users[id].isActive
        /\ users[id].role = role
        /\ users[id].role = "admin"
             <=> authorize({"admin"}, authenticate(r)).next = 2

\* A registration with the role admin was answered 201, and one without a
\* role had been stored before it.
C29_Witness ==
  /\ last.route = "register"
  /\ last.out.status = 201
  /\ last.in.role = "admin"
  /\ users[last.out.user.id].role = "admin"
  /\ \E id \in UserIds : users[id].exists /\ users[id].role = "senior"

\* C30: a POST /songs answered next after a successful role change, with a
\* token of the identity whose role was changed (a token carries no role, so
\* one issued before the change is the same), is refused with 403 exactly
\* when the new role is neither contributor nor admin; authorize reads the
\* role of the stored identity.
C30_StoredRole ==
  [][(/\ Answers
      /\ last.route = "role"
      /\ last.out.status = 200
      /\ last'.route = "songs"
      /\ BearsToken(last'.in.hdr)
      /\ last'.in.hdr.text[2].sub = last.in.target)
       => /\ last'.out.status = 403
               <=> last.in.role \notin {"contributor", "admin"}
          /\ last'.out.user.role = last.in.role
          /\ last'.out.status # 401]_vars

\* The admin the store started with was made a senior by the other admin and
\* then refused an upload.
C30_Witness ==
  /\ last.route = "songs"
  /\ last.out.status = 403
  /\ last.in.hdr.text[2].sub = 2
  /\ users[2].role = "senior"
  /\ users[1].role = "admin"

====
